---- MODULE Spec2Model ----
(***************************************************************************)
(* A model of mcseedcracker: the Java LCG and PRNG, the buried-treasure    *)
(* loot replay, the Stage-S / Stage-W search jobs and the job manager of   *)
(* the terminal UI.                                                        *)
(*                                                                         *)
(* Integers.  The Rust code computes in i64 with wrapping arithmetic and   *)
(* masks to 48 bits.  The model checker's integers have 32 bits, so an i64 *)
(* is modelled as the sequence of its eight bytes, least significant       *)
(* first (two's complement), and the wrapping operations are carried out   *)
(* on the bytes.  An i32 that the code keeps in an i32 is a plain integer. *)
(***************************************************************************)
EXTENDS Integers, Sequences, FiniteSets, TLC

(***************************************************************************)
(* i64 as eight bytes.                                                     *)
(***************************************************************************)

RECURSIVE NatBytes(_, _)
\* The k low bytes of the natural number n.
NatBytes(n, k) == IF k = 0 THEN <<>> ELSE <<n % 256>> \o NatBytes(n \div 256, k - 1)

\* Bitwise complement of an i64.
Not64(v) == <<255 - v[1], 255 - v[2], 255 - v[3], 255 - v[4],
              255 - v[5], 255 - v[6], 255 - v[7], 255 - v[8]>>

\* `n as i64` for an i32 n (sign extension): -m is the complement of m - 1.
FromInt(n) == IF n >= 0 THEN NatBytes(n, 8) ELSE Not64(NatBytes(-(n + 1), 8))

\* i64::wrapping_add: byte-wise addition with carry, the carry out of byte 8 dropped.
wrapping_add(a, b) ==
    LET s1 == a[1] + b[1]
        s2 == a[2] + b[2] + (s1 \div 256)
        s3 == a[3] + b[3] + (s2 \div 256)
        s4 == a[4] + b[4] + (s3 \div 256)
        s5 == a[5] + b[5] + (s4 \div 256)
        s6 == a[6] + b[6] + (s5 \div 256)
        s7 == a[7] + b[7] + (s6 \div 256)
        s8 == a[8] + b[8] + (s7 \div 256)
    IN  <<s1 % 256, s2 % 256, s3 % 256, s4 % 256,
          s5 % 256, s6 % 256, s7 % 256, s8 % 256>>

\* i64::wrapping_mul: schoolbook multiplication of the bytes, columns above byte 8 dropped.
wrapping_mul(a, b) ==
    LET s1 == a[1]*b[1]
        s2 == a[1]*b[2] + a[2]*b[1] + (s1 \div 256)
        s3 == a[1]*b[3] + a[2]*b[2] + a[3]*b[1] + (s2 \div 256)
        s4 == a[1]*b[4] + a[2]*b[3] + a[3]*b[2] + a[4]*b[1] + (s3 \div 256)
        s5 == a[1]*b[5] + a[2]*b[4] + a[3]*b[3] + a[4]*b[2] + a[5]*b[1]
                + (s4 \div 256)
        s6 == a[1]*b[6] + a[2]*b[5] + a[3]*b[4] + a[4]*b[3] + a[5]*b[2]
                + a[6]*b[1] + (s5 \div 256)
        s7 == a[1]*b[7] + a[2]*b[6] + a[3]*b[5] + a[4]*b[4] + a[5]*b[3]
                + a[6]*b[2] + a[7]*b[1] + (s6 \div 256)
        s8 == a[1]*b[8] + a[2]*b[7] + a[3]*b[6] + a[4]*b[5] + a[5]*b[4]
                + a[6]*b[3] + a[7]*b[2] + a[8]*b[1] + (s7 \div 256)
    IN  <<s1 % 256, s2 % 256, s3 % 256, s4 % 256,
          s5 % 256, s6 % 256, s7 % 256, s8 % 256>>

RECURSIVE XorBits(_, _, _)
\* The exclusive or of the n low bits of a and b.
XorBits(a, b, n) ==
    IF n = 0 THEN 0
    ELSE ((a + b) % 2) + 2 * XorBits(a \div 2, b \div 2, n - 1)

\* a ^ b
Xor64(a, b) == <<XorBits(a[1], b[1], 8), XorBits(a[2], b[2], 8),
                 XorBits(a[3], b[3], 8), XorBits(a[4], b[4], 8),
                 XorBits(a[5], b[5], 8), XorBits(a[6], b[6], 8),
                 XorBits(a[7], b[7], 8), XorBits(a[8], b[8], 8)>>

\* x & 0xFFFF_FFFF_FFFF
Mask48(v) == <<v[1], v[2], v[3], v[4], v[5], v[6], 0, 0>>

\* v | 1
Or1(v) == <<v[1] + (1 - (v[1] % 2)), v[2], v[3], v[4], v[5], v[6], v[7], v[8]>>

\* v << 32
Shl32(v) == <<0, 0, 0, 0, v[1], v[2], v[3], v[4]>>

\* The byte of v at position i (1..8), and 0 above the eighth byte.
ByteAt(v, i) == IF i <= 8 THEN v[i] ELSE 0

\* (v >> sh) as i32, for 0 <= sh < 64 and the bit pattern v: bits
\* sh .. sh + 31 of v, read as a signed 32-bit value (bit sh + 31 is the sign).
ShrAsI32(v, sh) ==
    LET q  == sh \div 8
        r  == sh % 8
        b1 == ByteAt(v, q + 1)
        b2 == ByteAt(v, q + 2)
        b3 == ByteAt(v, q + 3)
        b4 == ByteAt(v, q + 4)
        b5 == ByteAt(v, q + 5)
        low31 == IF r = 0
                 THEN b1 + b2 * 256 + b3 * 65536 + (b4 % 128) * 16777216
                 ELSE (b1 \div (2^r)) + b2 * (2^(8 - r)) + b3 * (2^(16 - r))
                        + b4 * (2^(24 - r))
                        + (IF r = 1 THEN 0 ELSE (b5 % (2^(r - 1))) * (2^(32 - r)))
        top   == IF r = 0 THEN b4 \div 128 ELSE (b5 \div (2^(r - 1))) % 2
    IN  IF top = 0 THEN low31 ELSE (low31 - 2147483647) - 1

\* A value computed once and bound to a name, as a Rust `let` binds it.
Let(v, F(_)) == F(v)
Let2(v, w, F(_, _)) == F(v, w)

(***************************************************************************)
(* src/src/lcg.rs: the linear congruential generator.  Every generator of  *)
(* the program has the modulus 2^48, so is_pow_2 holds and _mod is the     *)
(* mask of the low 48 bits.                                                *)
(***************************************************************************)

\* LinearCongruentialGenerator::new, for the modulus 1 << 48
LinearCongruentialGenerator(multiplier, increment) ==
    [multiplier |-> multiplier, increment |-> increment]

\* LinearCongruentialGenerator::_mod: x & (self.modulus - 1)
lcg_mod(v) == Mask48(v)

\* LinearCongruentialGenerator::next_seed
next_seed(lcg, seed) ==
    lcg_mod(wrapping_add(wrapping_mul(lcg.multiplier, seed), lcg.increment))

\* ((k as u64) >> 1) as i64
LogicalShr1(k) ==
    <<(k[1] \div 2) + (k[2] % 2) * 128, (k[2] \div 2) + (k[3] % 2) * 128,
      (k[3] \div 2) + (k[4] % 2) * 128, (k[4] \div 2) + (k[5] % 2) * 128,
      (k[5] \div 2) + (k[6] % 2) * 128, (k[6] \div 2) + (k[7] % 2) * 128,
      (k[7] \div 2) + (k[8] % 2) * 128, k[8] \div 2>>

Zero64 == <<0, 0, 0, 0, 0, 0, 0, 0>>
One64 == <<1, 0, 0, 0, 0, 0, 0, 0>>

\* i64::wrapping_neg
wrapping_neg(a) == wrapping_add(Not64(a), One64)

\* A combine that stops after the first round whatever k is
combine_loop_one_round(multiplier, increment, intermediate_multiplier, intermediate_increment, k) ==
    LinearCongruentialGenerator(lcg_mod(intermediate_multiplier),
                                lcg_mod(intermediate_increment))

RECURSIVE combine_loop(_, _, _, _, _)
\* The while loop of combine: one round per bit of k, until k is 0.
combine_loop(multiplier, increment, intermediate_multiplier, intermediate_increment, k) ==
    IF k = Zero64
    THEN LinearCongruentialGenerator(lcg_mod(multiplier), lcg_mod(increment))
    ELSE LET odd == (k[1] % 2) # 0
             m2  == IF odd THEN wrapping_mul(multiplier, intermediate_multiplier)
                    ELSE multiplier
             i2  == IF odd
                    THEN wrapping_add(wrapping_mul(intermediate_multiplier, increment),
                                      intermediate_increment)
                    ELSE increment
             ii2 == wrapping_mul(wrapping_add(intermediate_multiplier, One64),
                                 intermediate_increment)
             im2 == wrapping_mul(intermediate_multiplier, intermediate_multiplier)
         IN  \* the four values are computed before the next round starts
             IF m2[1] + i2[1] + ii2[1] + im2[1] >= 0
             THEN combine_loop(m2, i2, im2, ii2, LogicalShr1(k))
             ELSE LinearCongruentialGenerator(Zero64, Zero64)

\* A combine that takes |steps| steps forward
combine_magnitude(lcg, steps) ==
    combine_loop(One64, Zero64, lcg.multiplier, lcg.increment,
                 IF steps[8] >= 128 THEN wrapping_neg(steps) ELSE steps)

\* LinearCongruentialGenerator::combine, steps an i64
combine(lcg, steps) ==
    combine_loop(One64, Zero64, lcg.multiplier, lcg.increment, steps)

\* JAVA_RANDOM: multiplier 0x5DEECE66D, increment 0xB, modulus 1 << 48
JAVA_RANDOM ==
    LinearCongruentialGenerator(<<109, 230, 236, 222, 5, 0, 0, 0>>,
                                <<11, 0, 0, 0, 0, 0, 0, 0>>)

JAVA_RANDOM_REV1 == combine(JAVA_RANDOM, FromInt(-1))

JAVA_RANDOM_REV2 == combine(JAVA_RANDOM, FromInt(-2))

(***************************************************************************)
(* src/src/random.rs: JavaRandom.  The generator is its 48-bit seed; an    *)
(* operation that draws returns the value drawn and the generator after    *)
(* the draw, [val, rng].                                                   *)
(***************************************************************************)

\* JavaRandom::new: (seed ^ multiplier) & (modulus - 1)
JavaRandom_new(seed) == Mask48(Xor64(seed, JAVA_RANDOM.multiplier))

\* JavaRandom::next: advance the seed, return (seed >> (48 - bit_count)) as i32
next(rng, bit_count) ==
    Let(next_seed(JAVA_RANDOM, rng),
        LAMBDA s : [val |-> ShrAsI32(s, 48 - bit_count), rng |-> s])

\* JavaRandom::next_int
next_int(rng) == next(rng, 32)

\* Math::is_pow_2, for n > 0: (n & (n - 1)) == 0
is_pow_2(n) == \E e \in 0..30 : n = 2^e

\* Math::pow_2(31) % b for 0 < b < 2^31 (2^31 itself is no 32-bit integer)
Pow31Mod(b) == ((2147483647 % b) + 1) % b

\* The first draw taken whatever it is: no rejection
next_bounded_int_loop_no_rejection(rng, bound, max_try) ==
    [val |-> next(rng, 31).val % bound, rng |-> next(rng, 31).rng]

RECURSIVE next_bounded_int_loop(_, _, _)
\* The rejection loop of next_bounded_int
next_bounded_int_loop(rng, bound, max_try) ==
    Let(next(rng, 31),
        LAMBDA t : IF t.val < max_try
                   THEN [val |-> t.val % bound, rng |-> t.rng]
                   ELSE next_bounded_int_loop(t.rng, bound, max_try))

\* JavaRandom::next_bounded_int
next_bounded_int(rng, bound) ==
    IF bound <= 0 THEN [val |-> 0, rng |-> rng]
    ELSE IF is_pow_2(bound)
    THEN Let(next(rng, 31),
             LAMBDA t :
                 [val |-> ShrAsI32(wrapping_mul(FromInt(bound), FromInt(t.val)), 31),
                  rng |-> t.rng])
    ELSE \* max_try = 2^31 - (2^31 % b); b is no power of two, so 2^31 % b > 0
         next_bounded_int_loop(rng, bound, 2147483647 - (Pow31Mod(bound) - 1))

\* JavaRandom::next_long: (hi << 32).wrapping_add(lo), hi and lo sign-extended
next_long(rng) ==
    Let(next_int(rng), LAMBDA hi :
        Let(next_int(hi.rng), LAMBDA lo :
            [val |-> wrapping_add(Shl32(FromInt(hi.val)), FromInt(lo.val)),
             rng |-> lo.rng]))

\* JavaRandom::next_bool
next_bool(rng) ==
    Let(next(rng, 1), LAMBDA t : [val |-> t.val # 0, rng |-> t.rng])

\* JavaRandom::next_float: next(24) / 2^24, an f32 that is exact; val is the
\* numerator next(24) of that fraction.
next_float(rng) == next(rng, 24)

\* The array a with the elements at positions i and j (1-based) exchanged.
Swap(a, i, j) == [a EXCEPT ![i] = a[j], ![j] = a[i]]

RECURSIVE shuffle_loop(_, _, _)
shuffle_loop(array, rng, i) ==
    IF i > 1
    THEN Let(next_bounded_int(rng, i),
             LAMBDA j : shuffle_loop(Swap(array, i, j.val + 1), j.rng, i - 1))
    ELSE [val |-> array, rng |-> rng]

\* The loop begun at len - 1
shuffle_from_len_minus_1(array, rng) == shuffle_loop(array, rng, Len(array) - 1)

\* shuffle: i from len down to 2, swap positions i - 1 and next_bounded_int(i)
shuffle(array, rng) == shuffle_loop(array, rng, Len(array))

\* Math::next_int: a number between min and max, inclusive
Math_next_int(rng, min, max) ==
    IF min >= max THEN [val |-> min, rng |-> rng]
    ELSE Let(next_bounded_int(rng, max - min + 1),
             LAMBDA d : [val |-> d.val + min, rng |-> d.rng])

\* random_with_population_seed: the seed of the pair it returns
random_with_population_seed(world_seed, block_x, block_z) ==
    Let(next_long(JavaRandom_new(world_seed)), LAMBDA xl :
        Let2(Or1(xl.val), Or1(next_long(xl.rng).val), LAMBDA xmul, zmul :
             Xor64(wrapping_add(wrapping_mul(FromInt(block_x), xmul),
                                wrapping_mul(FromInt(block_z), zmul)),
                   world_seed)))

\* random_with_decorator_seed: the seed of the pair it returns
random_with_decorator_seed(population_seed, index, step) ==
    wrapping_add(wrapping_add(population_seed, FromInt(index)),
                 wrapping_mul(FromInt(1000), FromInt(step)))

\* 341873128712 and 132897987541 as i64
RegionMulX == <<8, 245, 57, 153, 79, 0, 0, 0>>
RegionMulZ == <<213, 91, 86, 241, 30, 0, 0, 0>>

\* random_with_region_seed: the seed of the pair it returns
random_with_region_seed(world_seed, reg_x, reg_z, salt) ==
    wrapping_add(
        wrapping_add(
            wrapping_add(wrapping_mul(FromInt(reg_x), RegionMulX),
                         wrapping_mul(FromInt(reg_z), RegionMulZ)),
            world_seed),
        FromInt(salt))

(***************************************************************************)
(* src/src/features/end_pillars.rs                                         *)
(***************************************************************************)

\* EndPillars::pillar_seed: JavaRandom::new(world_seed).next_long() & 0xFFFF
pillar_seed(world_seed) ==
    Let(next_long(JavaRandom_new(world_seed)).val, LAMBDA l : l[1] + 256 * l[2])

\* An f64 that is positive and normal: the value m * 2^e, m the 53-bit
\* significand as an integer (held in the eight bytes of an i64 tuple).
F64(m, e) == [m |-> m, e |-> e]

\* The f64 values the height hints compute
F64_one == F64(<<0, 0, 0, 0, 0, 0, 16, 0>>, -52)                 \* 1.0
F64_half == F64(<<0, 0, 0, 0, 0, 0, 16, 0>>, -53)                \* 0.5
F64_three_quarters == F64(<<0, 0, 0, 0, 0, 0, 24, 0>>, -53)      \* 0.75
F64_0_9166 == F64(<<86, 85, 85, 85, 85, 85, 29, 0>>, -53)        \* 0x1.d555555555556p-1
F64_0_7 == F64(<<102, 102, 102, 102, 102, 102, 22, 0>>, -53)     \* 0x1.6666666666666p-1
F64_0_9 == F64(<<205, 204, 204, 204, 204, 204, 28, 0>>, -53)     \* 0x1.ccccccccccccdp-1
F64_0_3 == F64(<<52, 51, 51, 51, 51, 51, 19, 0>>, -54)           \* 0x1.3333333333334p-2
F64_0_1 == F64(<<152, 153, 153, 153, 153, 153, 25, 0>>, -56)     \* 0x1.9999999999998p-4

RECURSIVE F64_column(_, _, _, _)
\* The sum of the byte products a[i] * b[k + 1 - i] of column k
F64_column(a, b, k, i) ==
    IF i > 8 \/ i > k THEN 0
    ELSE (IF k + 1 - i <= 8 THEN a[i] * b[k + 1 - i] ELSE 0) + F64_column(a, b, k, i + 1)

RECURSIVE F64_product(_, _, _, _)
\* The sixteen bytes of the exact product of two significands
F64_product(a, b, k, carry) ==
    IF k > 16 THEN <<>>
    ELSE Let(F64_column(a, b, k, 1) + carry,
             LAMBDA s : <<s % 256>> \o F64_product(a, b, k + 1, s \div 256))

\* The product d of two significands, in [2^104, 2^106), shifted right by
\* 48 + r bits (r = 5 when bit 105 is set, else 4) and rounded to the nearest
\* significand, ties to even; a round up to 2^53 is 2^52 with the exponent
\* one higher.
F64_round(d, r, e) ==
    Let2([i \in 1..8 |-> (d[6 + i] \div 2^r) + (d[7 + i] % 2^r) * 2^(8 - r)],
         /\ (d[7] \div 2^(r - 1)) % 2 = 1
         /\ \/ d[7] % 2^(r - 1) # 0
            \/ \E i \in 1..6 : d[i] # 0
            \/ (d[7] \div 2^r) % 2 = 1,
         LAMBDA q, up :
             Let(IF up THEN wrapping_add(q, One64) ELSE q,
                 LAMBDA m : IF m[7] = 32
                            THEN F64(<<0, 0, 0, 0, 0, 0, 16, 0>>, e + 48 + r + 1)
                            ELSE F64(m, e + 48 + r)))

\* A product that is cut off instead of rounded
F64_mul_truncating(x, y) ==
    Let2(F64_product(x.m, y.m, 1, 0), x.e + y.e,
         LAMBDA d, e : Let(IF d[14] >= 2 THEN 5 ELSE 4,
                           LAMBDA r : F64([i \in 1..8 |-> (d[6 + i] \div 2^r)
                                              + (d[7 + i] % 2^r) * 2^(8 - r)],
                                          e + 48 + r)))

\* w1 * w2 of two f64: the exact product rounded to nearest, ties to even
F64_mul(x, y) ==
    Let2(x, y, LAMBDA a, b :
        Let(F64_product(a.m, b.m, 1, 0),
            LAMBDA d : F64_round(d, IF d[14] >= 2 THEN 5 ELSE 4, a.e + b.e)))

\* The ten heights 76, 79, ..., 103
PillarHeights == {76 + 3 * index : index \in 0..9}

\* EndPillars::new
EndPillars_new ==
    [i \in 1..10 |-> [index |-> 0, height |-> 0, x |-> 0, z |-> 0,
                      radius |-> 0, caged |-> FALSE]]

\* ((2.0 * (-PI + (PI / 10.0) * i)).cos() * 42.0).round() and the same of
\* sin, for i = 0..9
PillarX == <<42, 34, 13, -13, -34, -42, -34, -13, 13, 34>>
PillarZ == <<0, 25, 40, 40, 25, 0, -25, -40, -40, -25>>

\* A pillar whose first two shuffled indices are the caged ones
EndPillar_caged_0_and_1(i, index) ==
    [index |-> index, height |-> 76 + 3 * index, x |-> PillarX[i + 1],
     z |-> PillarZ[i + 1], radius |-> 2 + (index \div 3),
     caged |-> (index = 0 \/ index = 1)]

\* The body of the loop of from_seed: pillar i of shuffled index `index`
EndPillar(i, index) ==
    [index |-> index, height |-> 76 + 3 * index, x |-> PillarX[i + 1],
     z |-> PillarZ[i + 1], radius |-> 2 + (index \div 3),
     caged |-> (index = 1 \/ index = 2)]

\* EndPillars::from_seed
from_seed(seed) ==
    Let(shuffle(<<0, 1, 2, 3, 4, 5, 6, 7, 8, 9>>, JavaRandom_new(FromInt(seed))).val,
        LAMBDA indices : [i \in 1..10 |-> EndPillar(i - 1, indices[i])])

\* PillarHeightHint
Range(min, max) == [kind |-> "Range", min |-> min, max |-> max]
Exact(h) == [kind |-> "Exact", h |-> h]
Big == [kind |-> "Big"]
Medium == [kind |-> "Medium"]
Small == [kind |-> "Small"]
MediumBig == [kind |-> "MediumBig"]
MediumSmall == [kind |-> "MediumSmall"]
Unknown == [kind |-> "Unknown"]

\* PartialEndPillar::new
PartialEndPillar(caged, height) == [caged |-> caged, height |-> height]

\* PillarMatchResult
ImpossibleMatch == [tag |-> "ImpossibleMatch"]
ExactMatch == [tag |-> "ExactMatch"]
PossibleMatch(w) == [tag |-> "PossibleMatch", w |-> w]

\* A combine in which ExactMatch wins over a PossibleMatch
PillarMatchResult_combine_exact_wins(self, other) ==
    Let2(self, other, LAMBDA v, w :
        IF v = ImpossibleMatch \/ w = ImpossibleMatch THEN ImpossibleMatch
        ELSE IF v = ExactMatch \/ w = ExactMatch THEN ExactMatch
        ELSE PossibleMatch(F64_mul(v.w, w.w)))

\* PillarMatchResult::combine
PillarMatchResult_combine(self, other) ==
    Let2(self, other, LAMBDA v, w :
        IF v = ImpossibleMatch \/ w = ImpossibleMatch THEN ImpossibleMatch
        ELSE IF v = ExactMatch THEN w
        ELSE IF w = ExactMatch THEN v
        ELSE PossibleMatch(F64_mul(v.w, w.w)))

RECURSIVE F64_significand_lt(_, _, _)
\* Of two significands, the first is the smaller: the bytes k and below
F64_significand_lt(a, b, k) ==
    IF k = 0 THEN FALSE
    ELSE IF a[k] # b[k] THEN a[k] < b[k]
    ELSE F64_significand_lt(a, b, k - 1)

\* x < y on positive f64 with 53-bit significands
F64_lt(x, y) == x.e < y.e \/ (x.e = y.e /\ F64_significand_lt(x.m, y.m, 8))

\* PillarMatchResult::compare: the Ordering it returns
PillarMatchResult_compare(self, other) ==
    Let2(self, other, LAMBDA v, w :
        IF (v = ImpossibleMatch /\ w = ImpossibleMatch)
             \/ (v = ExactMatch /\ w = ExactMatch) THEN "Equal"
        ELSE IF v = ImpossibleMatch THEN "Less"
        ELSE IF w = ImpossibleMatch THEN "Greater"
        ELSE IF v = ExactMatch THEN "Greater"
        ELSE IF w = ExactMatch THEN "Less"
        ELSE IF F64_lt(v.w, w.w) THEN "Less"
        ELSE IF v.w = w.w THEN "Equal"
        ELSE "Less")

\* The height arms of PartialEndPillar::matches that weigh the height; the
\* f64 each arm computes is given for the heights the arm lets through.
\* Big: ((height - 97) / 6.0 + 1.0) / 2.0
\* Medium: ((1.0 - |height - 89.5| / 9.0) + 1.0) / 2.0
\* Small: ((82.0 - height) / 6.0 + 1.0) / 2.0
\* MediumBig: 1.0 - |height - 95.5| / 15.0
\* MediumSmall: 1.0 - |height - 83.5| / 15.0
height_weight(kind, height) ==
    IF kind = "Big"
    THEN IF height < 97 THEN ImpossibleMatch
         ELSE PossibleMatch(CASE height = 97 -> F64_half
                              [] height = 100 -> F64_three_quarters
                              [] OTHER -> F64_one)
    ELSE IF kind = "Medium"
    THEN IF height < 85 \/ height > 94 THEN ImpossibleMatch
         ELSE PossibleMatch(CASE height \in {85, 94} -> F64_three_quarters
                              [] OTHER -> F64_0_9166)
    ELSE IF kind = "Small"
    THEN IF height > 82 THEN ImpossibleMatch
         ELSE PossibleMatch(CASE height = 76 -> F64_one
                              [] height = 79 -> F64_three_quarters
                              [] OTHER -> F64_half)
    ELSE IF kind = "MediumBig"
    THEN IF height < 88 THEN ImpossibleMatch
         ELSE PossibleMatch(CASE height \in {88, 103} -> F64_half
                              [] height \in {91, 100} -> F64_0_7
                              [] OTHER -> F64_0_9)
    ELSE \* MediumSmall
         IF height > 97 THEN ImpossibleMatch
         ELSE PossibleMatch(CASE height \in {76, 91} -> F64_half
                              [] height \in {79, 88} -> F64_0_7
                              [] height \in {82, 85} -> F64_0_9
                              [] height = 94 -> F64_0_3
                              [] OTHER -> F64_0_1)

\* The match of the height hint in PartialEndPillar::matches
height_match(hint, pillar) ==
    IF hint.kind = "Unknown" THEN PossibleMatch(F64_one)
    ELSE IF hint.kind = "Exact"
    THEN IF hint.h = pillar.height THEN ExactMatch ELSE ImpossibleMatch
    ELSE IF hint.kind = "Range"
    THEN IF pillar.height >= hint.min /\ pillar.height <= hint.max
         THEN ExactMatch ELSE ImpossibleMatch
    ELSE height_weight(hint.kind, pillar.height)

\* A matches that takes a cage hint for unknown
PartialEndPillar_matches_cage_unseen(self, pillar) ==
    PillarMatchResult_combine(PossibleMatch(F64_one), height_match(self.height, pillar))

\* PartialEndPillar::matches; caged is None or Some(bool)
PartialEndPillar_matches(self, pillar) ==
    IF self.caged # <<>> /\ self.caged[1] # pillar.caged THEN ImpossibleMatch
    ELSE PillarMatchResult_combine(
             IF self.caged # <<>> THEN ExactMatch ELSE PossibleMatch(F64_one),
             height_match(self.height, pillar))

RECURSIVE PartialEndPillars_matches_loop(_, _, _, _)
\* The loop of PartialEndPillars::matches over the zipped pillars, from i on
PartialEndPillars_matches_loop(self, pillars, i, result) ==
    IF i > Len(pillars) THEN result
    ELSE Let(PartialEndPillar_matches(self[i], pillars[i]),
             LAMBDA w : IF w = ImpossibleMatch THEN ImpossibleMatch
                        ELSE Let(PillarMatchResult_combine(result, w),
                                 LAMBDA r : PartialEndPillars_matches_loop(
                                                self, pillars, i + 1, r)))

\* PartialEndPillars::matches
PartialEndPillars_matches(self, pillars) ==
    PartialEndPillars_matches_loop(self, pillars, 1, ExactMatch)

\* PartialEndPillars::new
PartialEndPillars_unknown == [i \in 1..10 |-> PartialEndPillar(<<>>, Unknown)]

(***************************************************************************)
(* src/src/loot_table.rs.  An Option is a sequence of length 0 (None) or 1 *)
(* (Some).  A SingleChest is its 27 slots, slot s at position s + 1.  A    *)
(* panic is an outcome of its own: a result record carries panic = TRUE.   *)
(* luck is an f32 in the code; the model draws it from the integer-valued  *)
(* floats, where quality * luck is exact and floor changes nothing.        *)
(***************************************************************************)

None == <<>>
Some(v) == <<v>>

\* ItemStack::new
ItemStack_new(item, count, max_count) ==
    [item |-> item, count |-> count, max_count |-> max_count, properties |-> <<>>]

\* ItemStack::of
ItemStack_of(item, count) == ItemStack_new(item, count, 64)

\* A split whose second stack keeps the whole count
ItemStack_split_keeps_count(stack, count) ==
    LET c == IF count < stack.count THEN count ELSE stack.count
    IN  <<[stack EXCEPT !.count = c], stack>>

\* ItemStack::split
ItemStack_split(stack, count) ==
    LET c == IF count < stack.count THEN count ELSE stack.count
    IN  <<[stack EXCEPT !.count = c], [stack EXCEPT !.count = stack.count - c]>>

\* SingleChest::slot_count
slot_count == 27

\* SingleChest::new
SingleChest_new == [s \in 1..slot_count |-> None]

\* Inventory::set_item of SingleChest: a slot outside the chest is ignored
set_item(inv, slot, item) ==
    IF slot < 0 \/ slot >= 27 THEN inv ELSE [inv EXCEPT ![slot + 1] = item]

\* Inventory::get_item of SingleChest
get_item(inv, slot) == IF slot < 0 \/ slot >= 27 THEN None ELSE inv[slot + 1]

\* LootTableRange<i32>::apply
LootTableRange_apply(range, rng) ==
    IF range.kind = "Uniform"
    THEN IF range.min >= range.max THEN [val |-> range.min, rng |-> rng]
         ELSE Let(next_bounded_int(rng, range.max - range.min + 1),
                  LAMBDA d : [val |-> d.val + range.min, rng |-> d.rng])
    ELSE [val |-> range.value, rng |-> rng]

Uniform(min, max) == [kind |-> "Uniform", min |-> min, max |-> max, value |-> 0]
Constant(value) == [kind |-> "Constant", min |-> 0, max |-> 0, value |-> value]

\* ItemLootPoolEntry::get_weight
get_weight(entry, luck) ==
    LET w == entry.weight + entry.quality * luck IN IF w > 0 THEN w ELSE 0

RECURSIVE total_weight(_, _, _)
\* total after the first k entries of select_entry's loop
total_weight(entries, luck, k) ==
    IF k = 0 THEN 0
    ELSE total_weight(entries, luck, k - 1) + get_weight(entries[k], luck)

\* LootPool::select_entry: the position of the entry selected.  The binary
\* search returns the entry whose [min_inc, max_exc) holds the draw; the
\* intervals are disjoint, so it is unique; with no such entry it panics.
select_entry(pool, rng, luck) ==
    IF Len(pool.entries) = 1 THEN [panic |-> FALSE, idx |-> 1, rng |-> rng]
    ELSE Let(next_bounded_int(rng, total_weight(pool.entries, luck,
                                                Len(pool.entries))),
             LAMBDA i :
        Let({k \in 1..Len(pool.entries) :
                 /\ ~(i.val < total_weight(pool.entries, luck, k - 1))
                 /\ ~(i.val >= total_weight(pool.entries, luck, k))},
            LAMBDA found :
                IF found = {} THEN [panic |-> TRUE, idx |-> 0, rng |-> i.rng]
                ELSE [panic |-> FALSE, idx |-> CHOOSE k \in found : TRUE,
                      rng |-> i.rng]))

RECURSIVE apply_functions(_, _, _, _)
\* The loop of ItemLootPoolEntry::generate_raw_loot over the entry's
\* functions, from the k-th on; SetCountFunction::apply sets the count.
apply_functions(functions, k, item_stack, rng) ==
    IF k > Len(functions) THEN [val |-> item_stack, rng |-> rng]
    ELSE Let(LootTableRange_apply(functions[k].range, rng),
             LAMBDA c : apply_functions(functions, k + 1,
                                        [item_stack EXCEPT !.count = c.val], c.rng))

\* ItemLootPoolEntry::generate_raw_loot
ItemLootPoolEntry_generate_raw_loot(entry, rng) ==
    apply_functions(entry.functions, 1,
                    ItemStack_new(entry.item, 1, entry.stack_size), rng)

RECURSIVE pool_rolls(_, _, _, _, _)
\* The loop of LootPool::generate_raw_loot: `left` rolls to go
pool_rolls(pool, rng, luck, left, vec) ==
    IF left <= 0 THEN [panic |-> FALSE, val |-> vec, rng |-> rng]
    ELSE Let(select_entry(pool, rng, luck), LAMBDA e :
             IF e.panic THEN [panic |-> TRUE, val |-> vec, rng |-> e.rng]
             ELSE Let(ItemLootPoolEntry_generate_raw_loot(pool.entries[e.idx], e.rng),
                      LAMBDA g : pool_rolls(pool, g.rng, luck, left - 1,
                                            Append(vec, g.val))))

\* LootPool::generate_raw_loot
LootPool_generate_raw_loot(pool, rng, luck) ==
    Let(LootTableRange_apply(pool.rolls, rng),
        LAMBDA rolls : pool_rolls(pool, rolls.rng, luck, rolls.val, <<>>))

RECURSIVE table_pools(_, _, _, _, _)
table_pools(table, k, rng, luck, res) ==
    IF k > Len(table) THEN [panic |-> FALSE, val |-> res, rng |-> rng]
    ELSE Let(LootPool_generate_raw_loot(table[k], rng, luck), LAMBDA g :
             IF g.panic THEN [panic |-> TRUE, val |-> res, rng |-> g.rng]
             ELSE table_pools(table, k + 1, g.rng, luck, res \o g.val))

\* LootTable::generate_raw_loot
generate_raw_loot(table, rng, luck) == table_pools(table, 1, rng, luck, <<>>)

\* count copies of the stack v
Repeat(v, count) == [k \in 1..count |-> v]

\* The stacks one raw stack becomes in LootTable::divide, and in the copy of
\* that step in compare_fast0
divide_one(items) ==
    IF items.count < items.max_count THEN <<items>>
    ELSE LET split(stacks, remainder) ==
                 IF remainder > 0
                 THEN Repeat([items EXCEPT !.count = items.max_count], stacks)
                        \o <<[items EXCEPT !.count = remainder]>>
                 ELSE <<[items EXCEPT !.count = items.max_count]>>
         IN  split(items.count \div items.max_count,
                   items.count % items.max_count)

RECURSIVE divide_from(_, _)
divide_from(loot, k) ==
    IF k > Len(loot) THEN <<>> ELSE divide_one(loot[k]) \o divide_from(loot, k + 1)

\* LootTable::divide
divide(loot) == divide_from(loot, 1)

\* The slots of the inventory that are free, in increasing order
FreeSlotsFrom(inv) ==
    LET free(slot) == \/ get_item(inv, slot) = None
                      \/ get_item(inv, slot)[1].count = 0
        F[s \in 0..slot_count] ==
            IF s = slot_count THEN <<>>
            ELSE IF free(s) THEN <<s>> \o F[s + 1] ELSE F[s + 1]
    IN  F[0]

\* LootTable::get_free_slots
get_free_slots(inv, rng) == shuffle(FreeSlotsFrom(inv), rng)

\* The sequence without its i-th element (Vec::remove)
Remove(seq, i) == SubSeq(seq, 1, i - 1) \o SubSeq(seq, i + 1, Len(seq))

RECURSIVE shuffle_loot_sort(_, _, _)
\* The first loop of shuffle_loot: drop the empty stacks, move the stacks of
\* more than one item from loot to moved
shuffle_loot_sort(loot, i, moved) ==
    IF i > Len(loot) THEN [loot |-> loot, moved |-> moved]
    ELSE IF loot[i].count = 0 THEN shuffle_loot_sort(Remove(loot, i), i, moved)
    ELSE IF loot[i].count > 1
    THEN shuffle_loot_sort(Remove(loot, i), i, Append(moved, loot[i]))
    ELSE shuffle_loot_sort(loot, i + 1, moved)

RECURSIVE shuffle_loot_split(_, _, _, _)
\* The second loop of shuffle_loot: split stacks while slots are left
shuffle_loot_split(loot, moved, free_slots, rng) ==
    IF Len(moved) + Len(loot) < free_slots /\ Len(moved) # 0
    THEN Let(Math_next_int(rng, 0, Len(moved) - 1), LAMBDA i :
         Let(Math_next_int(i.rng, 1, moved[i.val + 1].count \div 2), LAMBDA count :
         Let(ItemStack_split(moved[i.val + 1], count.val), LAMBDA ba :
         Let(IF ba[2].count > 1 THEN next_bool(count.rng)
             ELSE [val |-> FALSE, rng |-> count.rng], LAMBDA drawa :
         Let(IF ba[1].count > 1 THEN next_bool(drawa.rng)
             ELSE [val |-> FALSE, rng |-> drawa.rng], LAMBDA drawb :
             shuffle_loot_split(
                 (IF drawa.val THEN loot ELSE Append(loot, ba[2]))
                   \o (IF drawb.val THEN <<>> ELSE <<ba[1]>>),
                 Remove(moved, i.val + 1)
                   \o (IF drawa.val THEN <<ba[2]>> ELSE <<>>)
                   \o (IF drawb.val THEN <<ba[1]>> ELSE <<>>),
                 free_slots, drawb.rng))))))
    ELSE [loot |-> loot, moved |-> moved, rng |-> rng]

\* LootTable::shuffle_loot
shuffle_loot(loot, free_slots, rng) ==
    Let(shuffle_loot_sort(loot, 1, <<>>), LAMBDA sorted :
        Let(shuffle_loot_split(sorted.loot, sorted.moved, free_slots, rng),
            LAMBDA t : shuffle(t.loot \o t.moved, t.rng)))

RECURSIVE place_loot(_, _, _, _)
\* The loop that places the stacks: each takes the last free slot left, and
\* the loop ends when no slot is left
place_loot(inv, loot, k, free_slots) ==
    IF k > Len(loot) \/ Len(free_slots) = 0 THEN inv
    ELSE place_loot(set_item(inv, free_slots[Len(free_slots)],
                             IF loot[k].count = 0 THEN None ELSE Some(loot[k])),
                    loot, k + 1, SubSeq(free_slots, 1, Len(free_slots) - 1))

\* LootTable::generate_in_inventory: the inventory afterwards
generate_in_inventory(table, inv, rng, luck) ==
    Let(generate_raw_loot(table, rng, luck), LAMBDA raw :
        IF raw.panic THEN [panic |-> TRUE, inv |-> inv]
        ELSE Let(get_free_slots(inv, raw.rng), LAMBDA free_slots :
                 [panic |-> FALSE,
                  inv |-> place_loot(inv,
                                     shuffle_loot(divide(raw.val),
                                                  Len(free_slots.val),
                                                  free_slots.rng).val,
                                     1, free_slots.val)]))

\* SingleChest::clear
clear(inv) == [s \in DOMAIN inv |-> None]

\* The closure stopping as soon as a tally of an item reaches zero
compare_fast0_callback_stops_at_zero(st, items) ==
    LET tally(rc, ri) ==
        IF rc <= 0
        THEN [st EXCEPT !.rem_count[items.item] = rc, !.stop = TRUE]
        ELSE IF ri < 0
        THEN [st EXCEPT !.rem_count[items.item] = rc, !.rem_items = ri,
                        !.stop = TRUE]
        ELSE [st EXCEPT !.rem_count[items.item] = rc, !.rem_items = ri,
                        !.loot = @ \o divide_one(items)]
    IN  tally(st.rem_count[items.item] - items.count, st.rem_items - items.count)

\* The closure compare_fast0 hands to generate_raw_loot_callback: st is
\* what it has captured (rem_count, rem_items, loot) and the stop flag
compare_fast0_callback(st, items) ==
    LET tally(rc, ri) ==
        IF rc < 0
        THEN [st EXCEPT !.rem_count[items.item] = rc, !.stop = TRUE]
        ELSE IF ri < 0
        THEN [st EXCEPT !.rem_count[items.item] = rc, !.rem_items = ri,
                        !.stop = TRUE]
        ELSE [st EXCEPT !.rem_count[items.item] = rc, !.rem_items = ri,
                        !.loot = @ \o divide_one(items)]
    IN  tally(st.rem_count[items.item] - items.count, st.rem_items - items.count)

RECURSIVE pool_rolls_callback(_, _, _, _, _)
\* The loop of LootPool::generate_raw_loot_callback: `left` rolls to go
pool_rolls_callback(pool, rng, luck, left, st) ==
    IF left <= 0 \/ st.stop THEN [panic |-> FALSE, st |-> st, rng |-> rng]
    ELSE Let(select_entry(pool, rng, luck), LAMBDA e :
             IF e.panic THEN [panic |-> TRUE, st |-> st, rng |-> e.rng]
             ELSE Let(ItemLootPoolEntry_generate_raw_loot(pool.entries[e.idx], e.rng),
                      LAMBDA g : pool_rolls_callback(
                                     pool, g.rng, luck, left - 1,
                                     compare_fast0_callback(st, g.val))))

\* LootPool::generate_raw_loot_callback
LootPool_generate_raw_loot_callback(pool, rng, luck, st) ==
    Let(LootTableRange_apply(pool.rolls, rng),
        LAMBDA rolls : pool_rolls_callback(pool, rolls.rng, luck, rolls.val, st))

RECURSIVE generate_raw_loot_callback_from(_, _, _, _, _)
generate_raw_loot_callback_from(table, k, rng, luck, st) ==
    IF k > Len(table) \/ st.stop THEN [panic |-> FALSE, st |-> st, rng |-> rng]
    ELSE Let(LootPool_generate_raw_loot_callback(table[k], rng, luck, st),
             LAMBDA g :
                 IF g.panic THEN g
                 ELSE generate_raw_loot_callback_from(table, k + 1, g.rng, luck,
                                                      g.st))

\* LootTable::generate_raw_loot_callback: it returns !stop
generate_raw_loot_callback(table, rng, luck, st) ==
    generate_raw_loot_callback_from(table, 1, rng, luck, st)

\* compare_fast0: the state of the closure after the callback path
compare_fast0(table, compare, rng, luck) ==
    generate_raw_loot_callback(table, rng, luck,
        [rem_count |-> compare.items_count, rem_items |-> compare.total_items,
         loot |-> <<>>, stop |-> FALSE])

\* compare_fast1
compare_fast1(temp_empty_inventory, compare, loot, rng) ==
    Let(get_free_slots(temp_empty_inventory, rng), LAMBDA free_slots :
        place_loot(temp_empty_inventory,
                   shuffle_loot(loot, Len(free_slots.val), free_slots.rng).val,
                   1, free_slots.val)
          = compare.inventory)

\* LootTable::compare_fast
compare_fast(table, rng, luck, compare, temp_empty_inventory) ==
    Let(compare_fast0(table, compare, rng, luck), LAMBDA c :
        IF c.panic THEN [panic |-> TRUE, val |-> FALSE]
        ELSE IF c.st.stop THEN [panic |-> FALSE, val |-> FALSE]
        ELSE [panic |-> FALSE,
              val |-> compare_fast1(clear(temp_empty_inventory), compare,
                                    c.st.loot, c.rng)])

\* LootTable::compare_fast_noinv
compare_fast_noinv(table, rng, luck, compare) ==
    Let(compare_fast0(table, compare, rng, luck), LAMBDA c :
        IF c.panic THEN [panic |-> TRUE, val |-> FALSE]
        ELSE IF c.st.stop THEN [panic |-> FALSE, val |-> FALSE]
        ELSE [panic |-> FALSE,
              val |-> compare_fast1(SingleChest_new, compare, c.st.loot, c.rng)])

(***************************************************************************)
(* src/src/features/buried_treasure.rs                                     *)
(***************************************************************************)

SALT == 10387320

\* PROB = 0.01f32 is 10737418 / 2^30 exactly, and next_float is n / 2^24
\* for the n that next(24) draws: next_float < PROB iff n * 64 < 10737418.
PROB_num == 10737418

HEART_OF_THE_SEA == 1
IRON_INGOT == 2
GOLD_INGOT == 3
TNT == 4
EMERALD == 5
DIAMOND == 6
PRISMARINE_CRYSTALS == 7
LEATHER_CHESTPLATE == 8
IRON_SWORD == 9
COOKED_COD == 10
COOKED_SALMON == 11

\* ItemLootPoolEntryBuilder: weight 1, quality 1, stack size 64, no function
\* unless set
Entry(item, weight, stack_size, functions) ==
    [item |-> item, weight |-> weight, quality |-> 1,
     stack_size |-> stack_size, functions |-> functions]

SetCountFunction(range) == [range |-> range]

\* get_loot_table
get_loot_table ==
    << [rolls |-> Constant(1),
        entries |-> <<Entry(HEART_OF_THE_SEA, 1, 64, <<>>)>>],
       [rolls |-> Uniform(5, 8),
        entries |-> <<Entry(IRON_INGOT, 20, 64, <<SetCountFunction(Uniform(1, 4))>>),
                      Entry(GOLD_INGOT, 10, 64, <<SetCountFunction(Uniform(1, 4))>>),
                      Entry(TNT, 5, 64, <<SetCountFunction(Uniform(1, 2))>>)>>],
       [rolls |-> Uniform(1, 3),
        entries |-> <<Entry(EMERALD, 5, 64, <<SetCountFunction(Uniform(4, 8))>>),
                      Entry(DIAMOND, 5, 64, <<SetCountFunction(Uniform(1, 2))>>),
                      Entry(PRISMARINE_CRYSTALS, 5, 64, <<SetCountFunction(Uniform(1, 5))>>)>>],
       [rolls |-> Uniform(0, 1),
        entries |-> <<Entry(LEATHER_CHESTPLATE, 1, 1, <<>>),
                      Entry(IRON_SWORD, 1, 1, <<>>)>>],
       [rolls |-> Constant(2),
        entries |-> <<Entry(COOKED_COD, 1, 64, <<SetCountFunction(Uniform(2, 4))>>),
                      Entry(COOKED_SALMON, 1, 64, <<SetCountFunction(Uniform(2, 4))>>)>>] >>

\* generates_at
generates_at(world_seed, chunk_pos) ==
    next_float(JavaRandom_new(
        random_with_region_seed(world_seed, chunk_pos[1], chunk_pos[2], SALT))).val * 64
      < PROB_num

\* Math::relative_chunk_coords
relative_chunk_coords(chunk_pos, rel) ==
    <<chunk_pos[1] * 16 + rel[1], chunk_pos[2] * 16 + rel[2]>>

\* get_buried_treasure_random: the seed of the pair it returns
get_buried_treasure_random(world_seed, chunk_pos) ==
    Let(relative_chunk_coords(chunk_pos, <<0, 0>>), LAMBDA block_pos :
        random_with_decorator_seed(
            random_with_population_seed(world_seed, block_pos[1], block_pos[2]),
            1, 30))

\* get_buried_treasure_loot_table_seed, had it returned the seed of the
\* generator in place of the generator's next_long
get_buried_treasure_loot_table_seed_of_pair(world_seed, chunk_pos) ==
    get_buried_treasure_random(world_seed, chunk_pos)

\* get_buried_treasure_loot_table_seed
get_buried_treasure_loot_table_seed(world_seed, chunk_pos) ==
    next_long(JavaRandom_new(get_buried_treasure_random(world_seed, chunk_pos))).val

\* get_buried_treasure
get_buried_treasure(world_seed, chunk_pos, luck) ==
    generate_in_inventory(get_loot_table, SingleChest_new,
        JavaRandom_new(get_buried_treasure_loot_table_seed(world_seed, chunk_pos)),
        luck)

\* build_fast_inventory_compare_context; items_count is a [0; 12], and
\* indexing it with the item of a stack panics when the item is 12 or more
build_fast_inventory_compare_context(contents) ==
    LET stacks == {s \in 1..slot_count : contents[s] # None}
        Sum[k \in 0..slot_count, it \in 0..12] ==
            IF k = 0 THEN 0
            ELSE Sum[k - 1, it]
                   + (IF k \in stacks /\ (it = 12 \/ contents[k][1].item = it)
                      THEN contents[k][1].count ELSE 0)
    IN  [panic |-> \E k \in stacks : contents[k][1].item \notin 0..11,
         inventory |-> contents,
         items_count |-> [it \in 0..11 |-> Sum[slot_count, it]],
         total_items |-> Sum[slot_count, 12]]

\* compare_buried_treasure_fast
compare_buried_treasure_fast(world_seed, chunk_pos, luck, compare, temp_inventory) ==
    compare_fast(get_loot_table,
        JavaRandom_new(get_buried_treasure_loot_table_seed(world_seed, chunk_pos)),
        luck, compare, temp_inventory)

\* compare_buried_treasure_fast_noinv
compare_buried_treasure_fast_noinv(world_seed, chunk_pos, luck, compare) ==
    compare_fast_noinv(get_loot_table,
        JavaRandom_new(get_buried_treasure_loot_table_seed(world_seed, chunk_pos)),
        luck, compare)

(***************************************************************************)
(* src/seedcracker_lib/src/search.rs: the closures of the searches.  The   *)
(* code enumerates 65536 outer and 65536 inner values; the model runs the  *)
(* same closures over a window of that range: the first NumHi values of    *)
(* state_hi, the last NumLo values of state_lo, and for Stage W the last   *)
(* NumW values of the first 512.                                           *)
(***************************************************************************)

NumHi == 2
NumLo == 1
NumW == 2
MaxResults == 1

state_hi_range == 0..(NumHi - 1)
state_lo_range == (65536 - NumLo)..65535
SPositions == state_hi_range \X state_lo_range
WRange == (512 - NumW)..511
WPositions == {0} \X WRange

\* max_results is a u16: no result allowed, a small cap, the largest cap
MaxResultsChoices == {0, MaxResults, 65535}

RECURSIVE OrBits(_, _, _)
OrBits(a, b, n) ==
    IF n = 0 THEN 0
    ELSE (IF a % 2 = 1 \/ b % 2 = 1 THEN 1 ELSE 0)
           + 2 * OrBits(a \div 2, b \div 2, n - 1)

\* a | b on i64
Or64(a, b) == [k \in 1..8 |-> OrBits(a[k], b[k], 8)]

\* StructureData::check_seed; a panic of the comparison ends the worker and
\* is no pass
StructureData_check_seed(d, seed) ==
    /\ generates_at(seed, <<d.chunk_x, d.chunk_z>>)
    /\ Let(compare_buried_treasure_fast_noinv(seed, <<d.chunk_x, d.chunk_z>>,
                                              d.luck, d.contents),
           LAMBDA c : ~c.panic /\ c.val)

\* The seed with the pillar seed left unshifted:
\* state_hi << 32 | state_lo << 16 | pillar_seed
StageS_seed_unshifted(pillar, state_hi, state_lo) ==
    Let(<<pillar % 256, pillar \div 256, state_lo % 256,
          state_lo \div 256, state_hi % 256, state_hi \div 256, 0, 0>>,
        LAMBDA state :
            Xor64(next_seed(JAVA_RANDOM_REV2, state), JAVA_RANDOM.multiplier))

\* The seed with state_hi taken before its shift:
\* orig | pillar_seed << 16 | state_lo
StageS_seed_state_hi_unshifted(pillar, state_hi, state_lo) ==
    Let(<<OrBits(state_lo % 256, state_hi % 256, 8),
          OrBits(state_lo \div 256, state_hi \div 256, 8), pillar % 256,
          pillar \div 256, 0, 0, 0, 0>>,
        LAMBDA state :
            Xor64(next_seed(JAVA_RANDOM_REV2, state), JAVA_RANDOM.multiplier))

\* The seed the inner closure of StructureSeedSearcher::compute tries:
\* state_hi << 32 | pillar_seed << 16 | state_lo, the three fields being 16
\* bits wide, then two steps back and the scrambling undone
StageS_seed(pillar, state_hi, state_lo) ==
    Let(<<state_lo % 256, state_lo \div 256, pillar % 256,
          pillar \div 256, state_hi % 256, state_hi \div 256, 0, 0>>,
        LAMBDA state :
            Xor64(next_seed(JAVA_RANDOM_REV2, state), JAVA_RANDOM.multiplier))

\* The inner closure of StructureSeedSearcher::compute: None or Some(seed)
StageS_closure(pillar, data, state_hi, state_lo) ==
    Let(StageS_seed(pillar, state_hi, state_lo), LAMBDA seed :
        IF \A k \in 1..Len(data) : StructureData_check_seed(data[k], seed)
        THEN Some(seed) ELSE None)

\* The biome engine (the cubiomes generator) is no part of the source: a
\* fixed function of the whole seed, the dimension and the place stands for
\* Generator::new(...).get_biome_at(x, y, z)
get_biome_at(seed, dimension, bx, by, bz) ==
    (seed[1] + seed[7] + seed[8] + dimension + bx + by + bz) % 2

DIM_OVERWORLD == 0
DIM_NETHER == 1

\* WorldExtraData::check_seed
WorldExtraData_check_seed(d, seed) ==
    \A k \in 1..Len(d.points) :
        get_biome_at(seed, d.dimension, d.points[k][1], d.points[k][2],
                     d.points[k][3]) = d.points[k][4]

\* The closure with seed_hi shifted by 32 instead of 48
compute_any_closure_shift32(structure_seed, data, seed_hi) ==
    Let(Or64(<<0, 0, 0, 0, seed_hi % 256, seed_hi \div 256, 0, 0>>,
             structure_seed),
        LAMBDA seed :
            IF \A k \in 1..Len(data) : WorldExtraData_check_seed(data[k], seed)
            THEN Some(seed) ELSE None)

\* The closure of WorldSeedSearcher::compute_any
compute_any_closure(structure_seed, data, seed_hi) ==
    Let(Or64(<<0, 0, 0, 0, 0, 0, seed_hi % 256, seed_hi \div 256>>,
             structure_seed),
        LAMBDA seed :
            IF \A k \in 1..Len(data) : WorldExtraData_check_seed(data[k], seed)
            THEN Some(seed) ELSE None)

\* The closure of compute_random with the low half of the next_long taken
\* as unsigned
compute_random_closure_unsigned_low(structure_seed, b_state_lo) ==
    Let(<<b_state_lo % 256, b_state_lo \div 256, structure_seed[1],
          structure_seed[2], structure_seed[3], structure_seed[4], 0, 0>>,
        LAMBDA b_state :
    Let(next_seed(JAVA_RANDOM_REV1, b_state), LAMBDA state_a :
    Let2(<<0, 0, 0, 0, state_a[3], state_a[4], state_a[5], state_a[6]>>,
         <<b_state[3], b_state[4], b_state[5], b_state[6], 0, 0, 0, 0>>,
         LAMBDA a_shifted, reconstructed_b_value :
    Let(wrapping_add(a_shifted, reconstructed_b_value),
        LAMBDA reconstructed_next_long :
            IF Mask48(reconstructed_next_long) = structure_seed
            THEN Some(reconstructed_next_long) ELSE None))))

\* The closure of WorldSeedSearcher::compute_random
compute_random_closure(structure_seed, b_state_lo) ==
    Let(<<b_state_lo % 256, b_state_lo \div 256, structure_seed[1],
          structure_seed[2], structure_seed[3], structure_seed[4], 0, 0>>,
        LAMBDA b_state :
    Let(next_seed(JAVA_RANDOM_REV1, b_state), LAMBDA state_a :
    Let2(<<0, 0, 0, 0, state_a[3], state_a[4], state_a[5], state_a[6]>>,
         FromInt(ShrAsI32(b_state, 16)),
         LAMBDA a_shifted, reconstructed_b_value :
    Let(wrapping_add(a_shifted, reconstructed_b_value),
        LAMBDA reconstructed_next_long :
            IF Mask48(reconstructed_next_long) = structure_seed
            THEN Some(reconstructed_next_long) ELSE None))))

(***************************************************************************)
(* The inputs of the searches                                              *)
(***************************************************************************)

\* pillar seeds lie in [0, 2^16)
PillarSeeds == {13847, 65535}

\* An observed chest: the buried treasure that the candidate of pillar seed
\* 13847 at state_hi 0, state_lo 65535 generates in chunk (-148, -15).  The
\* candidate at state_hi 0, state_lo 65534 has a treasure in that chunk
\* too, with other contents.
ObservedTreasure ==
    [chunk_x |-> -148, chunk_z |-> -15, luck |-> 0,
     contents |-> build_fast_inventory_compare_context(
                      get_buried_treasure(StageS_seed(13847, 0, 65535),
                                          <<-148, -15>>, 0).inv)]

\* The lists of StructureData a Stage-S search is given
SDataChoices == {<<>>, <<ObservedTreasure>>}

\* A world seed the game drew with one next_long: the state behind its low
\* half ends in 511, and that half is negative as an i32
RandomWorldSeed ==
    next_long(next_seed(JAVA_RANDOM_REV2, <<255, 1, 120, 86, 52, 200, 0, 0>>)).val

\* structure seeds lie in [0, 2^48)
StructureSeeds == {Mask48(RandomWorldSeed), StageS_seed(13847, 0, 65535)}

\* The lists of WorldExtraData a Stage-W search is given
WDataChoices ==
    {<<>>, <<[dimension |-> DIM_OVERWORLD, points |-> <<<<0, 64, 0, 1>>>>]>>,
     <<[dimension |-> DIM_OVERWORLD, points |-> <<<<0, 64, 0, 1>>>>],
       [dimension |-> DIM_NETHER, points |-> <<<<8, 64, 8, 0>>>>]>>}

\* StructureSeedSearchData: what spawn_multithreaded is given
StructureSeedSearchData ==
    [kind : {"S"}, pillar_seed : PillarSeeds, data : SDataChoices,
     max_results : MaxResultsChoices]

\* WorldSeedSearchData: what spawn_multithreaded is given
WorldSeedSearchData ==
    [kind : {"W"}, structure_seed : StructureSeeds,
     is_random_world_seed : BOOLEAN, data : WDataChoices,
     max_results : MaxResultsChoices]

\* A function with its values worked out: a function given by a rule is
\* kept as the rule until it is compared
Tabulated(f) == IF f = f THEN f ELSE f

\* What each closure returns at each place of its range
StageS_table ==
    Tabulated([pillar \in PillarSeeds, data \in SDataChoices |->
        [pos \in SPositions |-> StageS_closure(pillar, data, pos[1], pos[2])]])

compute_any_table ==
    Tabulated([ss \in StructureSeeds, data \in WDataChoices |->
        [pos \in WPositions |-> compute_any_closure(ss, data, pos[2])]])

compute_random_table ==
    Tabulated([ss \in StructureSeeds |->
        [pos \in WPositions |-> compute_random_closure(ss, pos[2])]])

\* The table of closure results the running search reads
closure_table(job) ==
    IF job.kind = "S" THEN StageS_table[job.pillar_seed, job.data]
    ELSE IF job.is_random_world_seed THEN compute_random_table[job.structure_seed]
    ELSE compute_any_table[job.structure_seed, job.data]

(***************************************************************************)
(* Status, and what the threads of a search decide                         *)
(***************************************************************************)

Searching == [tag |-> "Searching", seeds |-> <<>>]
Complete(seeds) == [tag |-> "Complete", seeds |-> seeds]
TooManySeeds(seeds_incomplete) == [tag |-> "TooManySeeds", seeds |-> seeds_incomplete]
Cancelled(seeds_incomplete) == [tag |-> "Cancelled", seeds |-> seeds_incomplete]

\* take_any(self.max_results): the take one short
take_any_limit_short(max_results) == max_results

\* take_any(self.max_results + 2): the take one long
take_any_limit_long(max_results) == max_results + 2

\* take_any(self.max_results + 1)
take_any_limit(max_results) == max_results + 1

\* The three arms with the cap tested before the stop
StageS_status_cap_first(observed_stop, found, max_results) ==
    IF Len(found) > max_results THEN [tag |-> "TooManySeeds", seeds |-> found]
    ELSE IF observed_stop THEN [tag |-> "Cancelled", seeds |-> found]
    ELSE [tag |-> "Complete", seeds |-> found]

\* The status StructureSeedSearcher::compute writes under the lock
StageS_status(observed_stop, found, max_results) ==
    IF observed_stop THEN Cancelled(found)
    ELSE IF Len(found) > max_results THEN TooManySeeds(found)
    ELSE Complete(found)

\* The cap tested with >= instead of >
done_status_at_cap(found, max_results) ==
    IF Len(found) >= max_results THEN [tag |-> "TooManySeeds", seeds |-> found]
    ELSE [tag |-> "Complete", seeds |-> found]

\* The status WorldSeedSearcher::done writes under the lock
done_status(found, max_results) ==
    IF Len(found) > max_results THEN TooManySeeds(found) ELSE Complete(found)

\* The place of a candidate in the order of the enumeration
PosKey(pos) == pos[1] * 65536 + pos[2]

RECURSIVE collect(_, _)
\* collect: the values kept, in the order of the enumeration
collect(outcomes, kept) ==
    IF kept = {} THEN <<>>
    ELSE LET first == CHOOSE q \in kept : \A r \in kept : PosKey(q) <= PosKey(r)
         IN  <<outcomes[first][1]>> \o collect(outcomes, kept \ {first})

RECURSIVE compute_random_loop(_, _, _, _, _, _)
\* The sequential loops 'a and 'b of compute_random, from the k-th value on
compute_random_loop(vals, k, tried, ok, data, max_results) ==
    IF k > Len(vals) THEN ok
    ELSE IF \E t \in 1..Len(tried) : tried[t] = vals[k]
    THEN compute_random_loop(vals, k + 1, tried, ok, data, max_results)
    ELSE IF \E d \in 1..Len(data) : ~WorldExtraData_check_seed(data[d], vals[k])
    THEN compute_random_loop(vals, k + 1, Append(tried, vals[k]), ok, data,
                             max_results)
    ELSE IF Len(ok) + 1 > max_results THEN Append(ok, vals[k])
    ELSE compute_random_loop(vals, k + 1, Append(tried, vals[k]),
                             Append(ok, vals[k]), data, max_results)

(***************************************************************************)
(* The state.  One search job: the fields of StructureSeedSearcher or      *)
(* WorldSeedSearcher (searcher holds the fields set at spawn), the locals  *)
(* of compute (ack, results), how far the parallel iterators are, where    *)
(* the thread is (pc), and the caller's side of the handle.                *)
(***************************************************************************)

VARIABLES
    searcher,           \* pillar_seed or structure_seed, data, max_results
    progress,           \* AtomicU64
    stopsig,            \* AtomicBool, Stage S only
    isdone,             \* AtomicBool
    status,             \* Mutex<Status>
    ack,                \* the AtomicBool local to StructureSeedSearcher::compute
    started,            \* outer iterations that read stopsig as false
    skipped,            \* outer iterations that read stopsig as true
    visited,            \* the places whose closure has run
    taken,              \* the places whose value the bounded take let through
    results,            \* the Vec compute returns
    pc,                 \* "running", "written" (status stored), "done"
    handle,             \* "live", "joining" (consumed by join), "joined"
    returned,           \* what join gave back, None before
    seen,               \* what the last get_status returned
    seen_progress,      \* what the last get_progress returned, None before
    seen_done,          \* what the last is_done returned, false before
    cancel_running,     \* cancel_join was called while the iterators ran
    loot_seed,          \* the loot-table check: seed of the PRNG
    loot_luck,
    observed,           \* the chest the user observed
    context,            \* FastInventoryCompareContext, None before it is built
    generated,          \* generate_in_inventory's outcome, None before
    fast,               \* compare_fast's outcome, None before
    fast_noinv,         \* compare_fast_noinv's outcome, None before
    shared,             \* SharedApplicationState of the terminal application
    selected_tab,
    focused_on_tab_selector,
    focus,              \* OutputTabState.focus
    spawn_log,          \* history: the jobs the last request enqueued, those
                        \* spawned since, and the search threads alive
    random,             \* a JavaRandom: its seed
    array,              \* the slice shuffle is given
    pillars,            \* an EndPillars: its ten pillars
    call                \* the last call made: its name, inputs and result

jobVars == <<searcher, progress, stopsig, isdone, status, ack, started, skipped,
             visited, taken, results, pc, handle, returned, seen, seen_progress,
             seen_done, cancel_running>>
lootVars == <<loot_seed, loot_luck, observed, context, generated, fast, fast_noinv>>
appVars == <<shared, selected_tab, focused_on_tab_selector, focus, spawn_log>>
pureVars == <<random, array, pillars, call>>
vars == <<jobVars, lootVars, appVars, pureVars>>

\* No search job, no loot check, no application: the parts a specification
\* leaves out
NoJob ==
    /\ searcher = [kind |-> "none"]
    /\ progress = 0 /\ stopsig = FALSE /\ isdone = FALSE /\ status = Searching
    /\ ack = FALSE /\ started = {} /\ skipped = {} /\ visited = {} /\ taken = {}
    /\ results = <<>> /\ pc = "none" /\ handle = "none" /\ returned = None
    /\ seen = Searching /\ seen_progress = None /\ seen_done = FALSE
    /\ cancel_running = FALSE

NoLoot ==
    /\ loot_seed = Zero64 /\ loot_luck = 0 /\ observed = SingleChest_new
    /\ context = None /\ generated = None /\ fast = None /\ fast_noinv = None

NoApp ==
    /\ shared = [kind |-> "none"] /\ selected_tab = 0
    /\ focused_on_tab_selector = TRUE /\ focus = "Outside"
    /\ spawn_log = [enqueued |-> <<>>, spawned |-> <<>>, live |-> 0]

NoCall == [fn |-> "none"]

NoPure == random = Zero64 /\ array = <<>> /\ pillars = <<>> /\ call = NoCall

(***************************************************************************)
(* A search job: spawn_multithreaded has returned the handle               *)
(***************************************************************************)

Init ==
    /\ searcher \in StructureSeedSearchData \cup WorldSeedSearchData
    /\ progress = 0 /\ stopsig = FALSE /\ isdone = FALSE /\ status = Searching
    /\ ack = FALSE /\ started = {} /\ skipped = {} /\ visited = {} /\ taken = {}
    /\ results = <<>> /\ pc = "running" /\ handle = "live" /\ returned = None
    /\ seen = Searching /\ seen_progress = None /\ seen_done = FALSE
    /\ cancel_running = FALSE
    /\ NoLoot /\ NoApp /\ NoPure

IsStageS == searcher.kind = "S"
IsAny == searcher.kind = "W" /\ ~searcher.is_random_world_seed
IsRandom == searcher.kind = "W" /\ searcher.is_random_world_seed

\* The bounded take has let through all it takes
Full == Cardinality(taken) >= take_any_limit(searcher.max_results)

\* The outer closure returning None on a stop without the store to ack
OuterIteration_without_ack(state_hi) ==
    /\ pc = "running" /\ IsStageS
    /\ state_hi \notin started \cup skipped
    /\ IF stopsig
       THEN skipped' = skipped \cup {state_hi} /\ UNCHANGED started
       ELSE started' = started \cup {state_hi} /\ UNCHANGED skipped
    /\ UNCHANGED <<searcher, progress, stopsig, isdone, status, ack, visited,
                   taken, results, pc, handle, returned, seen, cancel_running>>
    /\ UNCHANGED <<seen_progress, seen_done, lootVars, appVars, pureVars>>

\* The outer closure going ahead without a look at the stop flag
OuterIteration_never_polls(state_hi) ==
    /\ pc = "running" /\ IsStageS
    /\ state_hi \notin started \cup skipped
    /\ started' = started \cup {state_hi}
    /\ UNCHANGED <<searcher, progress, stopsig, isdone, status, ack, skipped,
                   visited, taken, results, pc, handle, returned, seen,
                   cancel_running>>
    /\ UNCHANGED <<seen_progress, seen_done, lootVars, appVars, pureVars>>

\* The outer closure of StructureSeedSearcher::compute, for one state_hi
OuterIteration(state_hi) ==
    /\ pc = "running" /\ IsStageS
    /\ state_hi \notin started \cup skipped
    /\ IF stopsig
       THEN ack' = TRUE /\ skipped' = skipped \cup {state_hi} /\ UNCHANGED started
       ELSE started' = started \cup {state_hi} /\ UNCHANGED <<ack, skipped>>
    /\ UNCHANGED <<searcher, progress, stopsig, isdone, status, visited, taken,
                   results, pc, handle, returned, seen, cancel_running>>
    /\ UNCHANGED <<seen_progress, seen_done, lootVars, appVars, pureVars>>

\* The inner closure adding to progress at the last candidate of every outer
\* iteration
InnerIteration_adds_for_every_state_hi(state_hi, state_lo) ==
    /\ pc = "running" /\ IsStageS
    /\ state_hi \in started
    /\ <<state_hi, state_lo>> \notin visited
    /\ progress' = IF state_lo = 65535 THEN progress + 65536 * 32 ELSE progress
    /\ visited' = visited \cup {<<state_hi, state_lo>>}
    /\ taken' = IF closure_table(searcher)[<<state_hi, state_lo>>] # None /\ ~Full
                THEN taken \cup {<<state_hi, state_lo>>} ELSE taken
    /\ UNCHANGED <<searcher, stopsig, isdone, status, ack, started, skipped,
                   results, pc, handle, returned, seen, cancel_running>>
    /\ UNCHANGED <<seen_progress, seen_done, lootVars, appVars, pureVars>>

\* The inner closure of StructureSeedSearcher::compute, for one candidate of
\* an outer iteration that went ahead, and the bounded take after it
InnerIteration(state_hi, state_lo) ==
    /\ pc = "running" /\ IsStageS
    /\ state_hi \in started
    /\ <<state_hi, state_lo>> \notin visited
    /\ progress' = IF state_lo = 65535 /\ state_hi % 32 = 0
                   THEN progress + 65536 * 32 ELSE progress
    /\ visited' = visited \cup {<<state_hi, state_lo>>}
    /\ taken' = IF closure_table(searcher)[<<state_hi, state_lo>>] # None /\ ~Full
                THEN taken \cup {<<state_hi, state_lo>>} ELSE taken
    /\ UNCHANGED <<searcher, stopsig, isdone, status, ack, started, skipped,
                   results, pc, handle, returned, seen, cancel_running>>
    /\ UNCHANGED <<seen_progress, seen_done, lootVars, appVars, pureVars>>

\* Every outer iteration has run or was skipped, and every inner one of
\* those that ran
StageS_exhausted ==
    /\ started \cup skipped = state_hi_range
    /\ visited = started \X state_lo_range

\* The end of StructureSeedSearcher::compute up to the unlock: the parallel
\* iterator ends when it is exhausted or the take is full, collect gathers
\* what was taken, and the status is written under the lock
StageS_finish ==
    /\ pc = "running" /\ IsStageS
    /\ StageS_exhausted \/ Full
    /\ results' = collect(closure_table(searcher), taken)
    /\ status' = StageS_status(ack, results', searcher.max_results)
    /\ pc' = "written"
    /\ UNCHANGED <<searcher, progress, stopsig, isdone, ack, started, skipped,
                   visited, taken, handle, returned, seen, cancel_running>>
    /\ UNCHANGED <<seen_progress, seen_done, lootVars, appVars, pureVars>>

\* The closure of compute_any for one seed_hi, and the bounded take
AnyIteration(seed_hi) ==
    /\ pc = "running" /\ IsAny
    /\ <<0, seed_hi>> \notin visited
    /\ progress' = IF seed_hi % 512 = 511 THEN progress + 512 ELSE progress
    /\ visited' = visited \cup {<<0, seed_hi>>}
    /\ taken' = IF closure_table(searcher)[<<0, seed_hi>>] # None /\ ~Full
                THEN taken \cup {<<0, seed_hi>>} ELSE taken
    /\ UNCHANGED <<searcher, stopsig, isdone, status, ack, started, skipped,
                   results, pc, handle, returned, seen, cancel_running>>
    /\ UNCHANGED <<seen_progress, seen_done, lootVars, appVars, pureVars>>

\* The end of compute_any and the locked part of done
compute_any_finish ==
    /\ pc = "running" /\ IsAny
    /\ visited = WPositions \/ Full
    /\ results' = collect(closure_table(searcher), taken)
    /\ status' = done_status(results', searcher.max_results)
    /\ pc' = "written"
    /\ UNCHANGED <<searcher, progress, stopsig, isdone, ack, started, skipped,
                   visited, taken, handle, returned, seen, cancel_running>>
    /\ UNCHANGED <<seen_progress, seen_done, lootVars, appVars, pureVars>>

\* The closure of compute_random for one b_state_lo; collect_vec_list keeps
\* every value
RandomIteration(b_state_lo) ==
    /\ pc = "running" /\ IsRandom
    /\ <<0, b_state_lo>> \notin visited
    /\ progress' = IF b_state_lo % 512 = 511 THEN progress + 512 ELSE progress
    /\ visited' = visited \cup {<<0, b_state_lo>>}
    /\ taken' = IF closure_table(searcher)[<<0, b_state_lo>>] # None
                THEN taken \cup {<<0, b_state_lo>>} ELSE taken
    /\ UNCHANGED <<searcher, stopsig, isdone, status, ack, started, skipped,
                   results, pc, handle, returned, seen, cancel_running>>
    /\ UNCHANGED <<seen_progress, seen_done, lootVars, appVars, pureVars>>

\* The sequential part of compute_random and the locked part of done
compute_random_finish ==
    /\ pc = "running" /\ IsRandom
    /\ visited = WPositions
    /\ results' = compute_random_loop(collect(closure_table(searcher), taken), 1,
                                      <<>>, <<>>, searcher.data,
                                      searcher.max_results)
    /\ status' = done_status(results', searcher.max_results)
    /\ pc' = "written"
    /\ UNCHANGED <<searcher, progress, stopsig, isdone, ack, started, skipped,
                   visited, taken, handle, returned, seen, cancel_running>>
    /\ UNCHANGED <<seen_progress, seen_done, lootVars, appVars, pureVars>>

\* The store to isdone with a second write of the status after it
store_isdone_rewrites_status ==
    /\ pc = "written"
    /\ isdone' = TRUE
    /\ status' = [tag |-> "Complete", seeds |-> results]
    /\ pc' = "done"
    /\ UNCHANGED <<searcher, progress, stopsig, ack, started, skipped,
                   visited, taken, results, handle, returned, seen,
                   cancel_running>>
    /\ UNCHANGED <<seen_progress, seen_done, lootVars, appVars, pureVars>>

\* The store to isdone made visible before the status is written
store_isdone_before_status ==
    /\ pc \in {"running", "written"}
    /\ isdone' = TRUE
    /\ pc' = IF pc = "written" THEN "done" ELSE pc
    /\ UNCHANGED <<searcher, progress, stopsig, status, ack, started, skipped,
                   visited, taken, results, handle, returned, seen,
                   cancel_running>>
    /\ UNCHANGED <<seen_progress, seen_done, lootVars, appVars, pureVars>>

\* self.isdone.store(true), after which the thread returns
store_isdone ==
    /\ pc = "written"
    /\ isdone' = TRUE
    /\ pc' = "done"
    /\ UNCHANGED <<searcher, progress, stopsig, status, ack, started, skipped,
                   visited, taken, results, handle, returned, seen,
                   cancel_running>>
    /\ UNCHANGED <<seen_progress, seen_done, lootVars, appVars, pureVars>>

\* StructureSeedSearcherHandle::get_status, WorldSeedSearcherHandle::get_status
get_status ==
    /\ handle = "live"
    /\ seen' = status
    /\ UNCHANGED <<searcher, progress, stopsig, isdone, status, ack, started,
                   skipped, visited, taken, results, pc, handle, returned,
                   cancel_running>>
    /\ UNCHANGED <<seen_progress, seen_done, lootVars, appVars, pureVars>>

\* StructureSeedSearcherHandle::get_progress,
\* WorldSeedSearcherHandle::get_progress: a load of the counter
get_progress ==
    /\ handle = "live"
    /\ seen_progress' = Some(progress)
    /\ UNCHANGED <<searcher, progress, stopsig, isdone, status, ack, started,
                   skipped, visited, taken, results, pc, handle, returned,
                   seen, cancel_running>>
    /\ UNCHANGED <<seen_done, lootVars, appVars, pureVars>>

\* StructureSeedSearcherHandle::is_done, WorldSeedSearcherHandle::is_done: a
\* load of isdone
is_done ==
    /\ handle = "live"
    /\ seen_done' = isdone
    /\ UNCHANGED <<searcher, progress, stopsig, isdone, status, ack, started,
                   skipped, visited, taken, results, pc, handle, returned,
                   seen, seen_progress, cancel_running>>
    /\ UNCHANGED <<lootVars, appVars, pureVars>>

\* join: the handle is consumed and the caller waits for the thread
join ==
    /\ handle = "live"
    /\ handle' = "joining"
    /\ UNCHANGED <<searcher, progress, stopsig, isdone, status, ack, started,
                   skipped, visited, taken, results, pc, returned, seen,
                   cancel_running>>
    /\ UNCHANGED <<seen_progress, seen_done, lootVars, appVars, pureVars>>

\* StructureSeedSearcherHandle::cancel_join: the store, then join
cancel_join ==
    /\ handle = "live" /\ IsStageS
    /\ stopsig' = TRUE
    /\ handle' = "joining"
    /\ cancel_running' = (pc = "running")
    /\ UNCHANGED <<searcher, progress, isdone, status, ack, started, skipped,
                   visited, taken, results, pc, returned, seen>>
    /\ UNCHANGED <<seen_progress, seen_done, lootVars, appVars, pureVars>>

\* The thread has returned: join gives its Vec to the caller
join_returns ==
    /\ handle = "joining" /\ pc = "done"
    /\ returned' = Some(results)
    /\ handle' = "joined"
    /\ UNCHANGED <<searcher, progress, stopsig, isdone, status, ack, started,
                   skipped, visited, taken, results, pc, seen, cancel_running>>
    /\ UNCHANGED <<seen_progress, seen_done, lootVars, appVars, pureVars>>

Next ==
    \/ \E state_hi \in state_hi_range : OuterIteration(state_hi)
    \/ \E state_hi \in state_hi_range, state_lo \in state_lo_range :
          InnerIteration(state_hi, state_lo)
    \/ StageS_finish
    \/ \E seed_hi \in WRange : AnyIteration(seed_hi)
    \/ compute_any_finish
    \/ \E b_state_lo \in WRange : RandomIteration(b_state_lo)
    \/ compute_random_finish
    \/ store_isdone
    \/ get_status
    \/ get_progress
    \/ is_done
    \/ join
    \/ cancel_join
    \/ join_returns

Spec == Init /\ [][Next]_vars

\* The candidates visited whose closure added to progress: in Stage S the
\* last state_lo of every 32nd state_hi, in Stage W every 512th candidate
Adding ==
    IF IsStageS THEN {q \in visited : q[2] = 65535 /\ q[1] % 32 = 0}
    ELSE {q \in visited : q[2] % 512 = 511}

\* What one of them adds
Increment == IF IsStageS THEN 65536 * 32 ELSE 512

\* C20: the progress counter never decreases and never exceeds the
\* denominator of its stage, 2^32 for Stage S and 2^16 for Stage W, under
\* every interleaving and whether or not the run stops early: it is one
\* increment for each adding candidate visited, of which the 65536 outer
\* indices of Stage S hold 65536 / 32 and the 65536 candidates of Stage W
\* 65536 / 512, and a step never lowers it.
progress_monotone_and_bounded ==
    /\ [](/\ progress = Increment * Cardinality(Adding)
          /\ Adding \subseteq (0..65535) \X (0..65535)
          /\ IsStageS => /\ Cardinality({q[1] : q \in Adding}) = Cardinality(Adding)
                          /\ Cardinality(Adding) * 32 <= 65536
                          /\ progress \div 65536 <= 65536
          /\ ~IsStageS => /\ Cardinality(Adding) * 512 <= 65536
                           /\ progress <= 65536)
    /\ [](seen_progress # None => seen_progress[1] <= progress)
    /\ [][/\ progress' >= progress
          /\ seen_progress # None =>
                seen_progress' # None /\ seen_progress'[1] >= seen_progress[1]]_vars

\* A Stage-S run that ended early, its take full before every candidate was
\* visited, and whose progress was read after it went up
progress_monotone_and_bounded_witness ==
    /\ IsStageS /\ pc = "done" /\ visited # SPositions
    /\ progress = 65536 * 32 /\ seen_progress = Some(progress)

(***************************************************************************)
(* The loot-table check: one loot seed, one luck and one observed chest;   *)
(* the context is built from the chest, the chest of that seed and luck is *)
(* generated, and the two fast comparisons are run.                        *)
(***************************************************************************)

MaxLootSeed == 2
MaxLuck == 1

\* The seeds handed to JavaRandom::new
LootSeeds == {FromInt(k) : k \in 0..MaxLootSeed}

\* luck is 0 in the game; a negative luck makes select_entry panic
Lucks == {-1} \cup (0..MaxLuck)

\* The chests the buried-treasure table generates in an empty chest
GeneratedChests ==
    {generate_in_inventory(get_loot_table, SingleChest_new, JavaRandom_new(s),
                           l).inv : s \in LootSeeds, l \in 0..MaxLuck}

\* The occupied and the free slots of a chest
Occupied(chest) == {k \in 1..slot_count : chest[k] # None}
Free(chest) == {k \in 1..slot_count : chest[k] = None}
First(slots) == CHOOSE k \in slots : \A j \in slots : k <= j
Last(slots) == CHOOSE k \in slots : \A j \in slots : k >= j

\* What a player may have found instead of a generated chest: the chest
\* itself, two of its stacks exchanged, a stack taken out, a stack put in,
\* one item taken from a stack
Variants(chest) ==
    {chest,
     Swap(chest, First(Occupied(chest)), Last(Occupied(chest))),
     [chest EXCEPT ![First(Occupied(chest))] = None],
     [chest EXCEPT ![Last(Occupied(chest))] =
          IF @[1].count > 1 THEN Some([@[1] EXCEPT !.count = @ - 1]) ELSE None]}
      \cup {[chest EXCEPT ![k] = Some(ItemStack_of(IRON_INGOT, 1))] :
               k \in {j \in Free(chest) : j = First(Free(chest))}}

\* A chest a player filled: a full stack of each item of the table
FullChest ==
    [s \in 1..slot_count |->
        IF s <= COOKED_SALMON THEN Some(ItemStack_of(s, 64)) ELSE None]

\* A chest holding a stack of an item that is none of the table's
ForeignChest ==
    [SingleChest_new EXCEPT ![1] = Some(ItemStack_of(COOKED_SALMON + 1, 1))]

\* The observed chests a generated chest is compared against
ObservedChests ==
    {SingleChest_new, FullChest, ForeignChest}
      \cup UNION {Variants(chest) : chest \in GeneratedChests}

LootInit ==
    /\ loot_seed \in LootSeeds
    /\ loot_luck \in Lucks
    /\ observed \in ObservedChests
    /\ context = None /\ generated = None /\ fast = None /\ fast_noinv = None
    /\ NoJob /\ NoApp /\ NoPure

\* build_fast_inventory_compare_context on the observed chest
BuildContext ==
    /\ context = None
    /\ context' = Some(build_fast_inventory_compare_context(observed))
    /\ UNCHANGED <<loot_seed, loot_luck, observed, generated, fast, fast_noinv>>
    /\ UNCHANGED <<jobVars, appVars, pureVars>>

\* LootTable::generate_in_inventory on an empty chest
GenerateInInventory ==
    /\ context # None /\ ~context[1].panic /\ generated = None
    /\ generated' = Some(generate_in_inventory(get_loot_table, SingleChest_new,
                                               JavaRandom_new(loot_seed),
                                               loot_luck))
    /\ UNCHANGED <<loot_seed, loot_luck, observed, context, fast, fast_noinv>>
    /\ UNCHANGED <<jobVars, appVars, pureVars>>

\* LootTable::compare_fast; the scratch chest still holds what the last
\* candidate left in it
CompareFast ==
    /\ generated # None /\ fast = None
    /\ fast' = Some(compare_fast(get_loot_table, JavaRandom_new(loot_seed),
                                 loot_luck, context[1],
                                 IF generated[1].panic THEN observed
                                 ELSE generated[1].inv))
    /\ UNCHANGED <<loot_seed, loot_luck, observed, context, generated, fast_noinv>>
    /\ UNCHANGED <<jobVars, appVars, pureVars>>

\* LootTable::compare_fast_noinv
CompareFastNoinv ==
    /\ fast # None /\ fast_noinv = None
    /\ fast_noinv' = Some(compare_fast_noinv(get_loot_table,
                                             JavaRandom_new(loot_seed),
                                             loot_luck, context[1]))
    /\ UNCHANGED <<loot_seed, loot_luck, observed, context, generated, fast>>
    /\ UNCHANGED <<jobVars, appVars, pureVars>>

LootNext ==
    \/ BuildContext
    \/ GenerateInInventory
    \/ CompareFast
    \/ CompareFastNoinv

SpecLoot == LootInit /\ [][LootNext]_vars

\* C2: compare_fast and compare_fast_noinv, against the context built from
\* the observed chest, return true exactly when generate_in_inventory on an
\* empty chest, with the same seed and luck, gives a chest equal to the
\* observed one.
compare_fast_iff_generated_equal ==
    /\ fast # None =>
          ((~fast[1].panic /\ fast[1].val)
             <=> (~generated[1].panic /\ generated[1].inv = observed))
    /\ fast_noinv # None =>
          ((~fast_noinv[1].panic /\ fast_noinv[1].val)
             <=> (~generated[1].panic /\ generated[1].inv = observed))

\* The observed chest is the one the seed and luck generate, and both
\* comparisons have returned true
compare_fast_iff_generated_equal_witness ==
    /\ fast # None /\ fast_noinv # None
    /\ ~generated[1].panic /\ generated[1].inv = observed
    /\ fast[1].val /\ fast_noinv[1].val

\* C18: the loot-compare path never panics: for every observed chest and
\* every luck, negative ones included, compare_fast and compare_fast_noinv
\* return a boolean.
compare_fast_never_panics ==
    /\ context # None => ~context[1].panic
    /\ fast # None => ~fast[1].panic
    /\ fast_noinv # None => ~fast_noinv[1].panic

\* A negative luck against the full chest, and both comparisons have run
\* to their end: the weights of the last pool's entries, 1 each, are all 0
compare_fast_never_panics_witness ==
    /\ loot_luck < 0 /\ observed = FullChest
    /\ fast # None /\ fast_noinv # None
    /\ total_weight(get_loot_table[5].entries, loot_luck,
                    Len(get_loot_table[5].entries)) = 0

\* With the luck of the game or a better one and a chest holding items of
\* the table only, neither the context nor a comparison panics
compare_fast_panics_off_table_only ==
    /\ (context # None /\ context[1].panic) => observed = ForeignChest
    /\ (fast # None /\ fast[1].panic) => loot_luck < 0
    /\ (fast_noinv # None /\ fast_noinv[1].panic) => loot_luck < 0

(***************************************************************************)
(* The terminal application: src/seedcracker_cli/src/tui_handler.rs and    *)
(* tui/application.rs, tui/tabs/output.rs.  An application state is the    *)
(* record app of the four variables below.  A PartialEndPillars is held as *)
(* the list of pillar seeds its seed_results leaves possible.  A handle is *)
(* [job, isdone, status]; its thread ends in one step.                     *)
(***************************************************************************)

\* PartialEndPillars::new(): nothing observed, more seeds possible than
\* max_pillars_to_simulate
PartialEndPillars_new == <<0, 1, 2, 3, 4, 5>>

\* What the user may enter in the end pillars tab
PillarDataChoices == {PartialEndPillars_new, <<13847>>, <<13847, 65535>>}

\* The tabs of ApplicationTabs, in order
TAB_END_PILLARS == 0
TAB_BURIED_TREASURE == 1
TAB_BIOMES == 2
TAB_OUTPUT == 3
tabs_size == 4

\* BiomesTabSharedData::default(): no biome point in either dimension
BiomesTabSharedData_default ==
    <<[dimension |-> DIM_OVERWORLD, points |-> <<>>],
      [dimension |-> DIM_NETHER, points |-> <<>>]>>

\* ApplicationComponentState::new(), the shared part
SharedApplicationState_new ==
    [pillar_data |-> PartialEndPillars_new,
     last_pillar_sim |-> None,
     max_pillars_to_simulate |-> 5,
     max_structure_seeds_to_simulate |-> 5,
     max_world_seeds_per_structure_seed |-> 5,
     buried_treasure_usable |-> FALSE,
     last_structure_seed_sim |-> [outdated_data |-> TRUE, data |-> None],
     current_structure_seed_searcher |-> None,
     structure_seed_search_jobs |-> <<>>,
     current_world_seed_searcher |-> None,
     world_seed_search_jobs |-> <<>>,
     world_seed_sim |-> [count_seeds |-> 0, per_structure |-> <<>>],
     is_random_world_seed |-> TRUE]

\* StructureSeedSearchData::spawn_multithreaded: the handle of a new thread
spawn_multithreaded(job) ==
    [job |-> job, isdone |-> FALSE, status |-> Searching]

\* OutputTabComponent::render_pillars: the pillar simulation is redone when
\* the pillar data is not the one of the last simulation
render_pillars(sh) ==
    IF sh.last_pillar_sim # None /\ sh.last_pillar_sim[1][1] = sh.pillar_data
    THEN sh
    ELSE [sh EXCEPT !.last_pillar_sim = Some(<<sh.pillar_data, sh.pillar_data>>)]

\* ApplicationComponent::render inside terminal.draw: nothing but a message
\* is drawn in a window too small, else the selected tab is rendered
ApplicationComponent_render(app, too_small) ==
    IF too_small \/ app.selected_tab # TAB_OUTPUT THEN app
    ELSE [app EXCEPT !.shared = render_pillars(@)]

RECURSIVE push_structure_jobs(_, _, _, _)
\* for pillar_seed in pillar_seeds { structure_seed_search_jobs.push_back(..) }
push_structure_jobs(jobs, pillar_seeds, k, data) ==
    IF k > Len(pillar_seeds) THEN jobs
    ELSE push_structure_jobs(
             Append(jobs, [kind |-> "S", pillar_seed |-> pillar_seeds[k],
                           data |-> data, max_results |-> 10]),
             pillar_seeds, k + 1, data)

RECURSIVE flatten_structure_seeds(_, _)
\* sim.per_pillar.iter().map(|p| p.structure_seeds.iter()).flatten()
flatten_structure_seeds(per_pillar, k) ==
    IF k > Len(per_pillar) THEN <<>>
    ELSE per_pillar[k].structure_seeds \o flatten_structure_seeds(per_pillar, k + 1)

RECURSIVE push_world_jobs(_, _, _, _)
\* for &structure_seed in ... { world_seed_search_jobs.push_back(..) }
push_world_jobs(jobs, structure_seeds, k, sh) ==
    IF k > Len(structure_seeds) THEN jobs
    ELSE push_world_jobs(
             Append(jobs, [kind |-> "W", structure_seed |-> structure_seeds[k],
                           is_random_world_seed |-> sh.is_random_world_seed,
                           max_results |-> sh.max_world_seeds_per_structure_seed,
                           data |-> BiomesTabSharedData_default]),
             structure_seeds, k + 1, sh)

\* The arm of the structure seed button with a search running: the search
\* is taken, the queue cleared, and cancel_join waits for the thread
cancel_structure_search(sh) ==
    [sh EXCEPT !.current_structure_seed_searcher = None,
               !.structure_seed_search_jobs = <<>>]

\* The arm of the structure seed button with outdated data: a new request
request_structure_search(sh) ==
    Let([sh EXCEPT !.structure_seed_search_jobs = <<>>,
                   !.last_structure_seed_sim = [outdated_data |-> TRUE,
                                                data |-> None],
                   !.current_structure_seed_searcher = None],
        LAMBDA cleared :
            IF /\ cleared.last_pillar_sim # None
               /\ cleared.last_pillar_sim[1][1] = cleared.pillar_data
               /\ Len(cleared.last_pillar_sim[1][2]) <= cleared.max_pillars_to_simulate
            THEN [cleared EXCEPT !.structure_seed_search_jobs =
                      push_structure_jobs(
                          @, cleared.last_pillar_sim[1][2], 1,
                          IF cleared.buried_treasure_usable
                          THEN <<ObservedTreasure>> ELSE <<>>)]
            ELSE cleared)

\* The arm of the world seed button with a search running
cancel_world_search(sh) ==
    [sh EXCEPT !.current_world_seed_searcher = None,
               !.world_seed_search_jobs = <<>>]

\* The arm of the world seed button: a new request
request_world_search(sh) ==
    Let([sh EXCEPT !.world_seed_search_jobs = <<>>,
                   !.world_seed_sim = [count_seeds |-> 0, per_structure |-> <<>>],
                   !.current_world_seed_searcher = None],
        LAMBDA cleared :
            IF /\ cleared.last_structure_seed_sim.data # None
               /\ cleared.last_structure_seed_sim.data[1].count_seeds >= 1
               /\ cleared.last_structure_seed_sim.data[1].count_seeds
                     <= cleared.max_structure_seeds_to_simulate
            THEN [cleared EXCEPT !.world_seed_search_jobs =
                      push_world_jobs(
                          @, flatten_structure_seeds(
                                 cleared.last_structure_seed_sim.data[1].per_pillar, 1),
                          1, cleared)]
            ELSE cleared)

\* Focus after the Tab key
next_focus(f) ==
    CASE f = "StructureSeedButton" -> "WorldSeedButton"
      [] f = "WorldSeedButton" -> "Simulation"
      [] f = "Simulation" -> "Outside"
      [] f = "Outside" -> "StructureSeedButton"

\* OutputTabComponent::handle_event with EventContext::BubblingDown: the
\* application after it, and whether the event bubbles up
OutputTab_handle_event(app, event) ==
    IF /\ \/ app.shared.current_structure_seed_searcher # None
          \/ app.shared.structure_seed_search_jobs # <<>>
       /\ event # "Enter"
    THEN [app |-> app, bubble |-> FALSE]
    ELSE IF event = "Tab"
    THEN [app |-> [app EXCEPT !.focus = next_focus(@)],
          bubble |-> next_focus(app.focus) = "Outside"]
    ELSE IF /\ app.focus = "StructureSeedButton" /\ event = "Enter"
            /\ app.shared.current_structure_seed_searcher # None
    THEN [app |-> [app EXCEPT !.shared = cancel_structure_search(@)],
          bubble |-> FALSE]
    ELSE IF /\ app.focus = "StructureSeedButton" /\ event = "Enter"
            /\ app.shared.last_structure_seed_sim.outdated_data
    THEN [app |-> [app EXCEPT !.shared = request_structure_search(@)],
          bubble |-> FALSE]
    ELSE IF /\ app.focus = "WorldSeedButton" /\ event = "Enter"
            /\ app.shared.current_world_seed_searcher # None
    THEN [app |-> [app EXCEPT !.shared = cancel_world_search(@)],
          bubble |-> FALSE]
    ELSE IF app.focus = "WorldSeedButton" /\ event = "Enter"
    THEN [app |-> [app EXCEPT !.shared = request_world_search(@)],
          bubble |-> FALSE]
    ELSE [app |-> app, bubble |-> TRUE]

\* handle_event of the three input tabs: a key of the end pillars tab sets
\* the pillar data to `entry`, a key of the buried treasure tab switches
\* usable; the tab lets a Tab key bubble up when its own focus leaves it
InputTab_handle_event(app, event, entry, leaves) ==
    IF event = "Char" /\ app.selected_tab = TAB_END_PILLARS
    THEN [app |-> [app EXCEPT !.shared.pillar_data = entry], bubble |-> FALSE]
    ELSE IF event = "Char" /\ app.selected_tab = TAB_BURIED_TREASURE
    THEN [app |-> [app EXCEPT !.shared.buried_treasure_usable = ~@],
          bubble |-> FALSE]
    ELSE [app |-> app, bubble |-> event \in {"Tab", "BackTab"} /\ leaves]

\* ApplicationComponent::handle_event with EventContext::BubblingUp
ApplicationComponent_bubbling_up(app, event) ==
    IF event \in {"Tab", "BackTab"}
    THEN [app EXCEPT !.focused_on_tab_selector = ~@]
    ELSE app

\* ApplicationComponent::handle_event with EventContext::BubblingDown
ApplicationComponent_handle_event(app, event, entry, leaves) ==
    IF app.focused_on_tab_selector
    THEN IF event \in {"Tab", "BackTab"}
         THEN [app EXCEPT !.focused_on_tab_selector = FALSE]
         ELSE IF event = "Right"
         THEN [app EXCEPT !.selected_tab = (@ + 1) % tabs_size]
         ELSE IF event = "Left"
         THEN [app EXCEPT !.selected_tab = (@ + tabs_size - 1) % tabs_size]
         ELSE app
    ELSE Let(IF app.selected_tab = TAB_OUTPUT
             THEN OutputTab_handle_event(app, event)
             ELSE InputTab_handle_event(app, event, entry, leaves),
             LAMBDA handled :
                 IF handled.bubble
                 THEN ApplicationComponent_bubbling_up(handled.app, event)
                 ELSE handled.app)

\* run_tui, the part after the event: the result of a search that is done
\* is recorded and the searcher dropped
record_done_search(sh) ==
    IF /\ sh.current_structure_seed_searcher # None
       /\ sh.current_structure_seed_searcher[1].isdone
    THEN Let([pillar_seed |->
                  sh.current_structure_seed_searcher[1].job.pillar_seed,
              result |-> sh.current_structure_seed_searcher[1].status.tag,
              structure_seeds |->
                  sh.current_structure_seed_searcher[1].status.seeds],
             LAMBDA sim :
                 [sh EXCEPT
                    !.last_structure_seed_sim.data =
                        IF @ = None
                        THEN Some([count_seeds |-> Len(sim.structure_seeds),
                                   per_pillar |-> <<sim>>])
                        ELSE Some([count_seeds |->
                                       @[1].count_seeds + Len(sim.structure_seeds),
                                   per_pillar |-> Append(@[1].per_pillar, sim)]),
                    !.current_structure_seed_searcher = None,
                    !.last_structure_seed_sim.outdated_data =
                        IF sh.structure_seed_search_jobs = <<>> THEN FALSE ELSE @])
    ELSE sh

\* The next job taken with pop_back instead of pop_front
spawn_next_search_pop_back(sh) ==
    IF /\ sh.current_structure_seed_searcher = None
       /\ sh.structure_seed_search_jobs # <<>>
    THEN [sh EXCEPT
            !.current_structure_seed_searcher =
                Some([job |-> sh.structure_seed_search_jobs[
                                  Len(sh.structure_seed_search_jobs)],
                      isdone |-> FALSE,
                      status |-> [tag |-> "Searching", seeds |-> <<>>]]),
            !.structure_seed_search_jobs =
                SubSeq(@, 1, Len(sh.structure_seed_search_jobs) - 1)]
    ELSE sh

\* run_tui, the end of the loop body: the next job of the queue is spawned
spawn_next_search(sh) ==
    IF /\ sh.current_structure_seed_searcher = None
       /\ sh.structure_seed_search_jobs # <<>>
    THEN [sh EXCEPT
            !.current_structure_seed_searcher =
                Some(spawn_multithreaded(Head(sh.structure_seed_search_jobs))),
            !.structure_seed_search_jobs = Tail(@)]
    ELSE sh

\* The events crossterm may deliver; NoEvent is the poll timing out
Events == {"Tab", "BackTab", "Right", "Left", "Enter", "Char"}
NoEvent == "NoEvent"

ManagerInit ==
    /\ shared = SharedApplicationState_new
    /\ selected_tab = 0
    /\ focused_on_tab_selector = TRUE
    /\ focus = "Outside"
    /\ spawn_log = [enqueued |-> <<>>, spawned |-> <<>>, live |-> 0]
    /\ NoJob /\ NoLoot /\ NoPure

\* The body of the loop 'app of run_tui: draw, poll and handle an event,
\* record a search that is done, spawn the next job
loop_body(app, event, too_small, entry, leaves) ==
    Let(ApplicationComponent_render(app, too_small), LAMBDA drawn :
    Let(IF event = NoEvent THEN drawn
        ELSE ApplicationComponent_handle_event(drawn, event, entry, leaves),
        LAMBDA handled :
            [handled EXCEPT
               !.shared = spawn_next_search(record_done_search(@))]))

\* The first half of the loop body: the state after the draw and the event
loop_body_handled(app, event, too_small, entry, leaves) ==
    Let(ApplicationComponent_render(app, too_small), LAMBDA drawn :
        IF event = NoEvent THEN drawn
        ELSE ApplicationComponent_handle_event(drawn, event, entry, leaves))

\* What one turn of the loop does to the history: a handler that changes
\* the queue has cleared it and pushed its jobs; cancel_join has waited for
\* the thread of the search it took; std::thread::spawn starts a thread
\* for the job spawn_multithreaded is given
log_turn(log, before, handled, after) ==
    Let(IF handled.structure_seed_search_jobs # before.structure_seed_search_jobs
        THEN [log EXCEPT !.enqueued = handled.structure_seed_search_jobs,
                         !.spawned = <<>>]
        ELSE log,
        LAMBDA requested :
    Let(IF /\ before.current_structure_seed_searcher # None
           /\ handled.current_structure_seed_searcher = None
           /\ ~before.current_structure_seed_searcher[1].isdone
        THEN [requested EXCEPT !.live = @ - 1] ELSE requested,
        LAMBDA joined :
            IF Len(after.structure_seed_search_jobs)
                 < Len(record_done_search(handled).structure_seed_search_jobs)
            THEN [joined EXCEPT
                    !.spawned = Append(@, after.current_structure_seed_searcher[1].job),
                    !.live = @ + 1]
            ELSE joined))

\* One turn of the loop 'app of run_tui
run_tui(event, too_small, entry, leaves) ==
    /\ shared # [kind |-> "none"]
    /\ \E after \in {loop_body([shared |-> shared, selected_tab |-> selected_tab,
                                 focused_on_tab_selector |-> focused_on_tab_selector,
                                 focus |-> focus],
                                event, too_small, entry, leaves)} :
          /\ shared' = after.shared
          /\ selected_tab' = after.selected_tab
          /\ focused_on_tab_selector' = after.focused_on_tab_selector
          /\ focus' = after.focus
          /\ spawn_log' =
                log_turn(spawn_log, shared,
                         loop_body_handled(
                             [shared |-> shared, selected_tab |-> selected_tab,
                              focused_on_tab_selector |-> focused_on_tab_selector,
                              focus |-> focus],
                             event, too_small, entry, leaves).shared,
                         after.shared)
    /\ UNCHANGED <<jobVars, lootVars, pureVars>>

\* The passing seeds of the job's range
FoundPositions(job) == {pos \in SPositions : closure_table(job)[pos] # None}

\* The thread of the current structure seed search ends: the take lets
\* through what passes up to its limit, the status is stored, then isdone
StructureSeedSearcher_thread ==
    /\ shared # [kind |-> "none"]
    /\ shared.current_structure_seed_searcher # None
    /\ ~shared.current_structure_seed_searcher[1].isdone
    /\ \E kept \in SUBSET FoundPositions(shared.current_structure_seed_searcher[1].job) :
          /\ \/ kept = FoundPositions(shared.current_structure_seed_searcher[1].job)
             \/ Cardinality(kept) = take_any_limit(
                    shared.current_structure_seed_searcher[1].job.max_results)
          /\ Cardinality(kept) <= take_any_limit(
                    shared.current_structure_seed_searcher[1].job.max_results)
          /\ shared' =
                [shared EXCEPT
                   !.current_structure_seed_searcher[1].isdone = TRUE,
                   !.current_structure_seed_searcher[1].status =
                       StageS_status(
                           FALSE,
                           collect(closure_table(
                                       shared.current_structure_seed_searcher[1].job),
                                   kept),
                           shared.current_structure_seed_searcher[1].job.max_results)]
    /\ spawn_log' = [spawn_log EXCEPT !.live = @ - 1]
    /\ UNCHANGED <<selected_tab, focused_on_tab_selector, focus>>
    /\ UNCHANGED <<jobVars, lootVars, pureVars>>

ManagerNext ==
    \/ \E too_small \in BOOLEAN :
          run_tui(NoEvent, too_small, PartialEndPillars_new, FALSE)
    \/ \E event \in Events, too_small \in BOOLEAN,
          entry \in PillarDataChoices, leaves \in BOOLEAN :
          run_tui(event, too_small, entry, leaves)
    \/ StructureSeedSearcher_thread

SpecManager == ManagerInit /\ [][ManagerNext]_vars

\* The loop of run_tui goes on when no event comes, and the thread of a
\* search ends; the user owes the program no key
FairSpecManager ==
    /\ SpecManager
    /\ WF_vars(run_tui(NoEvent, FALSE, PartialEndPillars_new, FALSE))
    /\ WF_vars(StructureSeedSearcher_thread)

\* The longest queue a request can leave
MaxQueue == 5

\* Every pending Stage-S job is spawned in its turn unless the queue is
\* cleared: a queue of n jobs comes to hold fewer
StageS_jobs_eventually_spawned ==
    \A n \in 1..MaxQueue :
        (Len(shared.structure_seed_search_jobs) = n)
          ~> (Len(shared.structure_seed_search_jobs) < n)

\* C10: every job placed in a pending queue, Stage S or Stage W, is
\* eventually spawned unless the queue is cleared: a queue that holds jobs
\* comes to hold fewer, and a job of the Stage-W queue becomes the current
\* world seed search unless the queue is emptied.
Queued_jobs_eventually_spawned ==
    /\ StageS_jobs_eventually_spawned
    /\ (shared.world_seed_search_jobs # <<>>)
         ~> (\/ shared.world_seed_search_jobs = <<>>
             \/ shared.current_world_seed_searcher # None)

\* Stage-W jobs wait in their queue with no search running and none left
\* to spawn
Queued_jobs_eventually_spawned_witness ==
    /\ shared # [kind |-> "none"]
    /\ shared.world_seed_search_jobs # <<>>
    /\ shared.current_structure_seed_searcher = None
    /\ shared.structure_seed_search_jobs = <<>>
    /\ shared.current_world_seed_searcher = None

\* C11: the manager runs at most one Stage-S job at a time and spawns the
\* queued jobs in the order they were enqueued: the only thread alive is
\* that of the current search, a job is current only with no other thread
\* alive, and the jobs spawned since the last request, followed by the jobs
\* still queued, are the jobs that request enqueued, in its order.
StageS_jobs_one_at_a_time_in_order ==
    (shared # [kind |-> "none"]) =>
        /\ spawn_log.live \in {0, 1}
        /\ spawn_log.live = 1 <=>
              /\ shared.current_structure_seed_searcher # None
              /\ ~shared.current_structure_seed_searcher[1].isdone
        /\ spawn_log.spawned \o shared.structure_seed_search_jobs
              = spawn_log.enqueued
        /\ (shared.structure_seed_search_jobs # <<>>)
              => shared.current_structure_seed_searcher # None

\* The second of two enqueued jobs runs, after the first was recorded
StageS_jobs_one_at_a_time_in_order_witness ==
    /\ shared # [kind |-> "none"]
    /\ Len(spawn_log.enqueued) = 2
    /\ spawn_log.enqueued[1] # spawn_log.enqueued[2]
    /\ spawn_log.spawned = spawn_log.enqueued
    /\ spawn_log.live = 1
    /\ shared.last_structure_seed_sim.data # None

(***************************************************************************)
(* Properties of a search job                                              *)
(***************************************************************************)

\* The status is written: the search has ended
Ended == pc \in {"written", "done"}

\* The seed lists a search hands out: in the status, in the Vec of compute,
\* and in what join returned
SeedLists ==
    {status.seeds, results} \cup (IF returned = None THEN {} ELSE {returned[1]})

\* C1: every seed a Stage-S search for pillar seed p puts in a result list,
\* whatever the status, has pillar_seed(ss) = p: two steps of the Java LCG
\* from ss XOR 0x5DEECE66D give a state whose bits 16..31 are p.
StageS_seeds_have_pillar_seed ==
    IsStageS =>
        \A list \in SeedLists : \A k \in 1..Len(list) :
            /\ pillar_seed(list[k]) = searcher.pillar_seed
            /\ Let(next_seed(JAVA_RANDOM,
                             next_seed(JAVA_RANDOM, JavaRandom_new(list[k]))),
                   LAMBDA state : state[3] + 256 * state[4] = searcher.pillar_seed)

\* A Stage-S search with an observed treasure has ended Cancelled with a
\* seed found, and join has returned
StageS_seeds_have_pillar_seed_witness ==
    /\ IsStageS /\ pc = "done" /\ searcher.data # <<>>
    /\ status.tag = "Cancelled" /\ Len(status.seeds) >= 1
    /\ returned = Some(status.seeds)

StageS_status_priority ==
    IsStageS =>
        IF Ended
        THEN status = IF skipped # {}
                      THEN [tag |-> "Cancelled", seeds |-> results]
                      ELSE IF Len(results) > searcher.max_results
                      THEN [tag |-> "TooManySeeds", seeds |-> results]
                      ELSE [tag |-> "Complete", seeds |-> results]
        ELSE status = [tag |-> "Searching", seeds |-> <<>>]

\* A stop was observed and the list is over the cap: Cancelled wins
StageS_status_priority_witness ==
    /\ IsStageS /\ Ended /\ skipped # {}
    /\ Len(results) > searcher.max_results
    /\ status.tag = "Cancelled"

\* C5: the status changes at most once, from Searching to Complete,
\* TooManySeeds or Cancelled, and after get_status has returned a terminal
\* status every later get_status returns that status with that seed list.
Status_changes_at_most_once ==
    [][/\ status' # status =>
            /\ status.tag = "Searching"
            /\ status'.tag \in {"Complete", "TooManySeeds", "Cancelled"}
       /\ seen.tag # "Searching" => seen' = seen]_vars

\* get_status has returned a terminal status, and once more after the
\* thread had ended
Status_changes_at_most_once_witness ==
    /\ seen.tag \in {"Complete", "TooManySeeds", "Cancelled"}
    /\ pc = "done" /\ handle = "live" /\ seen = status

\* The seeds of the whole enumeration range that pass every check attached
\* to the search
PassingSeeds ==
    IF IsStageS
    THEN {StageS_closure(searcher.pillar_seed, searcher.data, pos[1], pos[2])[1] :
            pos \in {q \in SPositions :
                        StageS_closure(searcher.pillar_seed, searcher.data,
                                       q[1], q[2]) # None}}
    ELSE IF IsAny
    THEN {compute_any_closure(searcher.structure_seed, searcher.data, pos[2])[1] :
            pos \in {q \in WPositions :
                        compute_any_closure(searcher.structure_seed,
                                            searcher.data, q[2]) # None}}
    ELSE {v \in {compute_random_closure(searcher.structure_seed, pos[2])[1] :
                    pos \in {q \in WPositions :
                                compute_random_closure(searcher.structure_seed,
                                                       q[2]) # None}} :
            \A k \in 1..Len(searcher.data) :
                WorldExtraData_check_seed(searcher.data[k], v)}

\* The seeds of a list, as a set
SeedSet(list) == {list[k] : k \in 1..Len(list)}

\* C6: a search that ends Complete reports exactly the candidates of the
\* whole range that pass every attached check, whatever the interleaving.
Complete_reports_all_passing ==
    (searcher.kind \in {"S", "W"} /\ Ended /\ status.tag = "Complete") =>
        \A list \in SeedLists : SeedSet(list) = PassingSeeds

\* A Stage-S search ended Complete with two seeds although cancel_join had
\* been called while it ran
Complete_reports_all_passing_witness ==
    /\ IsStageS /\ pc = "done" /\ status.tag = "Complete"
    /\ stopsig /\ Len(status.seeds) >= 2 /\ returned = Some(status.seeds)

\* C7: no seed list of a search, in the status or returned by join, holds
\* more than max_results + 1 seeds.
SeedLists_within_cap ==
    searcher.kind \in {"S", "W"} =>
        \A list \in SeedLists : Len(list) <= searcher.max_results + 1

\* More candidates pass than the cap lets through, and the list stopped at
\* max_results + 1
SeedLists_within_cap_witness ==
    /\ searcher.kind \in {"S", "W"} /\ pc = "done"
    /\ Len(status.seeds) = searcher.max_results + 1
    /\ Cardinality(PassingSeeds) > searcher.max_results + 1
    /\ returned = Some(status.seeds)

\* C8: every world seed a Stage-W search reports has the structure seed as
\* its low 48 bits.
StageW_seeds_keep_structure_seed ==
    searcher.kind = "W" =>
        \A list \in SeedLists : \A k \in 1..Len(list) :
            Mask48(list[k]) = searcher.structure_seed

\* A search in random mode has reported a world seed
StageW_seeds_keep_structure_seed_witness ==
    /\ IsRandom /\ pc = "done" /\ Len(status.seeds) >= 1
    /\ status.seeds[1][7] + status.seeds[1][8] > 0

\* C9: a Stage-W search is never Cancelled; once it has ended its status is
\* TooManySeeds exactly when more than max_results seeds were collected,
\* and Complete otherwise.
StageW_never_Cancelled ==
    searcher.kind = "W" =>
        /\ status.tag # "Cancelled"
        /\ Ended =>
              /\ (status.tag = "TooManySeeds") <=> (Len(results) > searcher.max_results)
              /\ (status.tag = "Complete") <=> (Len(results) <= searcher.max_results)
              /\ status.seeds = results

\* A Stage-W search has ended with exactly max_results seeds, Complete
StageW_never_Cancelled_witness ==
    /\ searcher.kind = "W" /\ pc = "done"
    /\ Len(results) = searcher.max_results /\ Len(results) >= 1
    /\ status.tag = "Complete"

(***************************************************************************)
(* A JavaRandom in use: calls of next_bounded_int and of shuffle on one    *)
(* generator, each call recorded with its inputs and its result            *)
(***************************************************************************)

\* The seeds JavaRandom::new is given are 0..MaxSeed
MaxSeed == 2
\* The calls made on one generator
MaxCalls == 2
\* The draws one call of next_bounded_int may need
MaxTries == 8

\* The bounds next_bounded_int is called with: none, powers of two, and
\* others; of the draws for 2^30 + 1 about half are rejected
BoundChoices == {-1, 0, 1, 2, 8, 1073741824, 3, 10, 27, 1073741825}

\* The slices shuffle is called with
ArrayChoices == {<<>>, <<7>>, <<1, 2>>, <<1, 2, 3>>, <<4, 4, 5, 6>>, <<1, 2, 3, 4, 5>>}

RandomInit ==
    /\ random \in {JavaRandom_new(FromInt(n)) : n \in 0..MaxSeed}
    /\ array = <<>>
    /\ pillars = <<>>
    /\ call = [fn |-> "new", n |-> 0]
    /\ NoJob /\ NoLoot /\ NoApp

\* rng.next_bounded_int(bound)
NextBoundedInt(bound) ==
    /\ call.fn # "none" /\ call.n < MaxCalls
    /\ \E r \in {next_bounded_int(random, bound)} :
          /\ random' = r.rng
          /\ call' = [fn |-> "next_bounded_int", n |-> call.n + 1,
                      before |-> random, bound |-> bound, val |-> r.val]
    /\ UNCHANGED <<array, pillars>>
    /\ UNCHANGED <<jobVars, lootVars, appVars>>

\* shuffle(&mut a, &mut rng)
Shuffle(a) ==
    /\ call.fn # "none" /\ call.n < MaxCalls
    /\ \E r \in {shuffle(a, random)} :
          /\ random' = r.rng
          /\ array' = r.val
          /\ call' = [fn |-> "shuffle", n |-> call.n + 1,
                      before |-> random, input |-> a]
    /\ UNCHANGED pillars
    /\ UNCHANGED <<jobVars, lootVars, appVars>>

\* The step counts combine is called with: -MaxSteps..MaxSteps, and some
\* that use the high bits of the i64
MaxSteps == 3
StepChoices ==
    {FromInt(k) : k \in -MaxSteps..MaxSteps}
        \cup {<<0, 0, 0, 0, 0, 1, 0, 0>>, <<57, 48, 0, 0, 0, 0, 0, 64>>,
              <<199, 207, 255, 255, 255, 255, 255, 255>>}

\* The seeds next_seed is given: 48-bit states, and i64 values that are not
\* (-1, 2^48, -2^63 + 5)
SeedChoices ==
    {FromInt(n) : n \in 0..MaxSeed}
        \cup {Mask48(FromInt(-1)), <<13, 240, 173, 11, 206, 250, 0, 0>>}
        \cup {FromInt(-1), <<0, 0, 0, 0, 0, 0, 1, 0>>, <<5, 0, 0, 0, 0, 0, 0, 128>>}

\* JAVA_RANDOM.combine(k) for the step counts in use and their negations
JAVA_RANDOM_combined ==
    Tabulated([k \in StepChoices \cup {wrapping_neg(k) : k \in StepChoices} |->
                  combine(JAVA_RANDOM, k)])

\* JAVA_RANDOM.combine(steps).next_seed(seed), and the way back:
\* JAVA_RANDOM.combine(steps).next_seed(JAVA_RANDOM.combine(-steps).next_seed(seed))
Combine(steps, seed) ==
    /\ call.fn # "none" /\ call.n < MaxCalls
    /\ call' = [fn |-> "combine", n |-> call.n + 1, steps |-> steps, seed |-> seed,
                val |-> next_seed(JAVA_RANDOM_combined[steps], seed),
                back |-> next_seed(JAVA_RANDOM_combined[steps],
                                   next_seed(JAVA_RANDOM_combined[wrapping_neg(steps)],
                                             seed))]
    /\ UNCHANGED <<random, array, pillars>>
    /\ UNCHANGED <<jobVars, lootVars, appVars>>

\* The i64 whose low 48 bits are those of seed and whose high 16 bits are high
WithHighBits(seed, high) ==
    [seed EXCEPT ![7] = high % 256, ![8] = high \div 256]

\* The high 16 bits the world seeds are given: none, one, the sign bit, all
HighBitChoices == {0, 1, 32768, 65535}

\* The seeds a world seed is compared with: those of the same low 48 bits,
\* and the next i64
OtherSeeds(world_seed) ==
    {WithHighBits(world_seed, high) : high \in HighBitChoices}
        \cup {wrapping_add(world_seed, One64)}

\* The world seeds the buried-treasure functions are given
WorldSeedChoices ==
    SeedChoices \cup UNION {OtherSeeds(seed) : seed \in SeedChoices}

\* The chunks they are given; a treasure generates at (3, 4), (2, -3) and
\* (-1, 6) for some of the seeds 0..MaxSeed
ChunkChoices == {<<0, 0>>, <<3, 4>>, <<2, -3>>, <<-1, 6>>}

\* generates_at and get_buried_treasure_loot_table_seed of the seeds and
\* chunks in use
buried_treasure_of ==
    Tabulated([world_seed \in WorldSeedChoices, chunk_pos \in ChunkChoices |->
                  [generates |-> generates_at(world_seed, chunk_pos),
                   loot_seed |->
                       get_buried_treasure_loot_table_seed(world_seed, chunk_pos)]])

\* generates_at(world_seed, chunk_pos) and
\* get_buried_treasure_loot_table_seed(world_seed, chunk_pos), of one seed and
\* of another; neither takes the generator in use, and they are called first
BuriedTreasureAt(world_seed, other_seed, chunk_pos) ==
    /\ call.fn = "new"
    /\ call' = [fn |-> "buried_treasure", n |-> call.n + 1,
                world_seed |-> world_seed, other_seed |-> other_seed,
                chunk_pos |-> chunk_pos,
                val |-> buried_treasure_of[world_seed, chunk_pos],
                other |-> buried_treasure_of[other_seed, chunk_pos]]
    /\ UNCHANGED <<random, array, pillars>>
    /\ UNCHANGED <<jobVars, lootVars, appVars>>

RandomNext ==
    \/ \E bound \in BoundChoices : NextBoundedInt(bound)
    \/ \E a \in ArrayChoices : Shuffle(a)
    \/ \E steps \in StepChoices, seed \in SeedChoices : Combine(steps, seed)
    \/ \E world_seed \in SeedChoices, chunk_pos \in ChunkChoices :
          \E other_seed \in OtherSeeds(world_seed) :
            BuriedTreasureAt(world_seed, other_seed, chunk_pos)

SpecRandom == RandomInit /\ [][RandomNext]_vars

RECURSIVE Draw(_, _)
\* The j-th of the next(31) draws made from the generator rng, j >= 1
Draw(rng, j) == IF j = 1 THEN next(rng, 31) ELSE Draw(next(rng, 31).rng, j - 1)

\* 2^31 mod bound, for bound > 0
Pow31Rem(bound) ==
    IF 2147483647 - (2147483647 \div bound) * bound + 1 = bound THEN 0
    ELSE 2147483647 - (2147483647 \div bound) * bound + 1

\* C12: next_bounded_int(bound) follows the Java reference: 0 and no draw
\* when bound <= 0; for a power of two one next(31) draw and
\* (bound * draw) >> 31, that is draw div 2^(31 - e) for bound = 2^e;
\* otherwise draws t = next(31) until t < 2^31 - (2^31 mod bound), and
\* t mod bound; for bound > 0 the result lies in [0, bound).
next_bounded_int_follows_reference ==
    (call.fn = "next_bounded_int") =>
        /\ (call.bound <= 0) => (call.val = 0 /\ random = call.before)
        /\ (call.bound > 0) => (0 <= call.val /\ call.val < call.bound)
        /\ \A e \in 0..30 :
              (call.bound = 2^e) =>
                  /\ random = Draw(call.before, 1).rng
                  /\ call.val = IF e = 0 THEN 0
                                ELSE Draw(call.before, 1).val \div 2^(31 - e)
        /\ (call.bound > 0 /\ \A e \in 0..30 : call.bound # 2^e) =>
              \E j \in 1..MaxTries :
                  /\ \A i \in 1..(j - 1) :
                        Draw(call.before, i).val > 2147483647 - Pow31Rem(call.bound)
                  /\ Draw(call.before, j).val <= 2147483647 - Pow31Rem(call.bound)
                  /\ call.val = Draw(call.before, j).val % call.bound
                  /\ random = Draw(call.before, j).rng

\* A call whose first draw was rejected
next_bounded_int_follows_reference_witness ==
    /\ call.fn = "next_bounded_int"
    /\ call.bound > 0 /\ \A e \in 0..30 : call.bound # 2^e
    /\ Draw(call.before, 1).val > 2147483647 - Pow31Rem(call.bound)
    /\ random # Draw(call.before, 1).rng

RECURSIVE ShuffleSteps(_, _, _)
\* For i from len down to 2: one next_bounded_int(i) draw, then the
\* elements at positions i - 1 and the drawn position (0-based) exchanged
ShuffleSteps(a, rng, i) ==
    IF i < 2 THEN [val |-> a, rng |-> rng]
    ELSE ShuffleSteps(
             [k \in 1..Len(a) |->
                 IF k = i THEN a[next_bounded_int(rng, i).val + 1]
                 ELSE IF k = next_bounded_int(rng, i).val + 1 THEN a[i]
                 ELSE a[k]],
             next_bounded_int(rng, i).rng, i - 1)

\* How often x occurs in the sequence a
Occurrences(a, x) == Cardinality({k \in 1..Len(a) : a[k] = x})

\* C13: shuffle makes, for i from len down to 2, one next_bounded_int(i)
\* draw and swaps position i - 1 with the drawn position, in that order;
\* the result is a permutation of the input, and an array of length 0 or 1
\* leaves the array and the generator unchanged.
shuffle_is_fisher_yates ==
    (call.fn = "shuffle") =>
        /\ array = ShuffleSteps(call.input, call.before, Len(call.input)).val
        /\ random = ShuffleSteps(call.input, call.before, Len(call.input)).rng
        /\ Len(array) = Len(call.input)
        /\ \A k \in 1..Len(array) :
              Occurrences(array, array[k]) = Occurrences(call.input, array[k])
        /\ (Len(call.input) <= 1) => (array = call.input /\ random = call.before)

\* A shuffle of five elements that moved some of them
shuffle_is_fisher_yates_witness ==
    /\ call.fn = "shuffle"
    /\ Len(call.input) = 5
    /\ array # call.input
    /\ random # call.before

RECURSIVE Iterate(_, _)
\* JAVA_RANDOM.next_seed applied n times to the state s
Iterate(s, n) == IF n = 0 THEN s ELSE Iterate(next_seed(JAVA_RANDOM, s), n - 1)

\* C14: for a 48-bit state s and a step count k, JAVA_RANDOM.combine(k)
\* .next_seed(s) is the k-th iterate of next_seed on s; for negative k it is
\* the |k|-th iterate of the inverse step, the 48-bit state from which |k|
\* steps lead to s.  JAVA_RANDOM_REV1 and JAVA_RANDOM_REV2 undo one and two
\* forward steps.
combine_is_kth_iterate ==
    (call.fn = "combine" /\ call.seed = Mask48(call.seed)) =>
        /\ call.val = Mask48(call.val)
        /\ \A k \in 0..MaxSteps :
              /\ (call.steps = FromInt(k)) => (call.val = Iterate(call.seed, k))
              /\ (call.steps = FromInt(-k)) => (Iterate(call.val, k) = call.seed)
        /\ next_seed(JAVA_RANDOM_REV1, Iterate(call.seed, 1)) = call.seed
        /\ next_seed(JAVA_RANDOM_REV2, Iterate(call.seed, 2)) = call.seed
        /\ (call.steps = FromInt(-1)) => (call.val = next_seed(JAVA_RANDOM_REV1, call.seed))
        /\ (call.steps = FromInt(-2)) => (call.val = next_seed(JAVA_RANDOM_REV2, call.seed))

\* Three steps back from a 48-bit state that is neither 0 nor its own image
combine_is_kth_iterate_witness ==
    /\ call.fn = "combine"
    /\ call.steps = FromInt(-MaxSteps)
    /\ call.seed = Mask48(call.seed) /\ call.seed # Zero64
    /\ call.val # call.seed
    /\ Iterate(call.val, MaxSteps) = call.seed

\* C15 as stated: for any seed s and any step count k,
\* combine(k).next_seed(combine(-k).next_seed(s)) = s.
combine_round_trip_any_seed ==
    (call.fn = "combine") => (call.back = call.seed)

\* C15, amended: the round trip gives s & (2^48 - 1), which is s exactly
\* for the seeds in [0, 2^48).
combine_round_trip_masks_seed ==
    (call.fn = "combine") =>
        /\ call.back = Mask48(call.seed)
        /\ (call.back = call.seed) <=> (call.seed[7] = 0 /\ call.seed[8] = 0)

\* A round trip with a negative step count that uses the high bits of the
\* i64, on a 48-bit seed that the way there changed
combine_round_trip_masks_seed_witness ==
    /\ call.fn = "combine"
    /\ call.steps = <<199, 207, 255, 255, 255, 255, 255, 255>>
    /\ call.seed = <<13, 240, 173, 11, 206, 250, 0, 0>>
    /\ call.val # call.seed
    /\ call.back = call.seed

(***************************************************************************)
(* The end pillars in use: layouts generated from pillar seeds, partial    *)
(* observations matched against them, and match results combined           *)
(***************************************************************************)

\* seed_results runs over the pillar seeds 0..65535; here 0..MaxPillarSeed
MaxPillarSeed == 15

\* PartialEndPillars::seed_results: the pairs (pillar_seed, match), in order
seed_results(self) ==
    [k \in 1..(MaxPillarSeed + 1) |->
        <<k - 1, PartialEndPillars_matches(self, from_seed(k - 1))>>]

\* The heights of the layout of pillar seed 0, pillar by pillar
Seed0Heights == <<88, 100, 103, 94, 85, 91, 82, 79, 97, 76>>

\* What was observed of the ten pillars
PartialChoices ==
    {PartialEndPillars_unknown,
     \* a caged pillar of height 100
     [PartialEndPillars_unknown EXCEPT ![1] = PartialEndPillar(<<TRUE>>, Exact(100))],
     \* a height that no pillar has
     [PartialEndPillars_unknown EXCEPT ![2] = PartialEndPillar(<<>>, Exact(77))],
     \* a range with min > max
     [PartialEndPillars_unknown EXCEPT ![3] = PartialEndPillar(<<>>, Range(90, 80))],
     \* two pillars of height 76
     [PartialEndPillars_unknown EXCEPT ![1] = PartialEndPillar(<<>>, Exact(76)),
                                       ![2] = PartialEndPillar(<<>>, Exact(76))],
     \* a pillar of height 79 without a cage
     [PartialEndPillars_unknown EXCEPT ![1] = PartialEndPillar(<<FALSE>>, Exact(79))],
     \* three caged pillars
     [PartialEndPillars_unknown EXCEPT ![1] = PartialEndPillar(<<TRUE>>, Unknown),
                                       ![2] = PartialEndPillar(<<TRUE>>, Unknown),
                                       ![3] = PartialEndPillar(<<TRUE>>, Unknown)],
     \* soft hints only
     [i \in 1..10 |->
         PartialEndPillar(<<>>, CASE i \in {2, 3, 6, 7} -> MediumBig
                                  [] i = 10 -> Medium
                                  [] OTHER -> Unknown)],
     \* all of the layout of pillar seed 0
     [i \in 1..10 |-> PartialEndPillar(<<Seed0Heights[i] \in {79, 82}>>,
                                       Exact(Seed0Heights[i]))],
     \* the layout of pillar seed 0 but for the pillar of height 97, which
     \* looked between medium and small
     [i \in 1..10 |-> PartialEndPillar(<<>>, IF i = 9 THEN MediumSmall
                                             ELSE Exact(Seed0Heights[i]))]}

\* The observation of test_full_reverse: pillar 0 of height 103, pillar 3
\* of 76, pillar 4 caged and of 82, pillar 6 caged and of 79, pillar 7 of
\* 100, pillar 8 of 97
Scenario1 ==
    [PartialEndPillars_unknown EXCEPT
        ![1] = PartialEndPillar(<<>>, Exact(103)),
        ![4] = PartialEndPillar(<<>>, Exact(76)),
        ![5] = PartialEndPillar(<<TRUE>>, Exact(82)),
        ![7] = PartialEndPillar(<<TRUE>>, Exact(79)),
        ![8] = PartialEndPillar(<<>>, Exact(100)),
        ![9] = PartialEndPillar(<<>>, Exact(97))]

\* The pillar seed test_full_reverse expects
Scenario1PillarSeed == 13847

\* The loop of test_full_reverse runs over the pillar seeds 0..65535; here
\* the first ones and those at most ScenarioWindow from the seed it expects
ScenarioWindow == 64

PillarSeedChoices ==
    (0..MaxPillarSeed)
      \cup ((Scenario1PillarSeed - ScenarioWindow)..(Scenario1PillarSeed + ScenarioWindow))

\* One soft hint on each of the ten pillars, no cage observed
SoftHints == {Big, Medium, Small, MediumBig, MediumSmall}
SoftHintChoices == {[i \in 1..10 |-> PartialEndPillar(<<>>, hint)] : hint \in SoftHints}

\* The match results that are combined
MatchChoices ==
    {ImpossibleMatch, ExactMatch, PossibleMatch(F64_half),
     PossibleMatch(F64_0_7), PossibleMatch(F64_0_9)}

\* A run is one call on an EndPillars that is new or that from_seed has filled
PillarsInit ==
    /\ pillars = EndPillars_new
    /\ call = [fn |-> "new"]
    /\ random = Zero64 /\ array = <<>>
    /\ NoJob /\ NoLoot /\ NoApp

\* pillars.from_seed(pillar_seed)
FromSeed(seed) ==
    /\ call.fn = "new"
    /\ pillars' = from_seed(seed)
    /\ call' = [fn |-> "from_seed", seed |-> seed]
    /\ UNCHANGED <<random, array>>
    /\ UNCHANGED <<jobVars, lootVars, appVars>>

\* partial.matches(&pillars), on pillars that from_seed has filled; with the
\* result the matches of the single pillars are recorded
Matches(partial) ==
    /\ call.fn = "from_seed"
    /\ call' = [fn |-> "matches", partial |-> partial, seed |-> call.seed,
                val |-> PartialEndPillars_matches(partial, pillars),
                per_pillar |-> [i \in 1..10 |->
                                   PartialEndPillar_matches(partial[i], pillars[i])]]
    /\ UNCHANGED <<random, array, pillars>>
    /\ UNCHANGED <<jobVars, lootVars, appVars>>

\* partial.seed_results()
SeedResults(partial) ==
    /\ call.fn = "new"
    /\ call' = [fn |-> "seed_results", partial |-> partial,
                val |-> seed_results(partial)]
    /\ UNCHANGED <<random, array, pillars>>
    /\ UNCHANGED <<jobVars, lootVars, appVars>>

\* x.combine(y), y.combine(x), x.combine(y).combine(z), x.combine(y.combine(z))
CombineResults(x, y, z) ==
    /\ call.fn = "new"
    /\ call' = [fn |-> "combine_results", x |-> x, y |-> y, z |-> z,
                xy |-> PillarMatchResult_combine(x, y),
                yx |-> PillarMatchResult_combine(y, x),
                xy_z |-> PillarMatchResult_combine(PillarMatchResult_combine(x, y), z),
                x_yz |-> PillarMatchResult_combine(x, PillarMatchResult_combine(y, z))]
    /\ UNCHANGED <<random, array, pillars>>
    /\ UNCHANGED <<jobVars, lootVars, appVars>>

\* x.compare(&y) and y.compare(&x)
CompareResults(x, y) ==
    /\ call.fn = "new"
    /\ call' = [fn |-> "compare", x |-> x, y |-> y,
                xy |-> PillarMatchResult_compare(x, y),
                yx |-> PillarMatchResult_compare(y, x)]
    /\ UNCHANGED <<random, array, pillars>>
    /\ UNCHANGED <<jobVars, lootVars, appVars>>

PillarsNext ==
    \/ \E seed \in PillarSeedChoices : FromSeed(seed)
    \/ \E partial \in PartialChoices \cup {Scenario1} \cup SoftHintChoices :
          Matches(partial)
    \/ \E partial \in PartialChoices : SeedResults(partial)
    \/ \E x \in MatchChoices, y \in MatchChoices, z \in MatchChoices :
          CombineResults(x, y, z)
    \/ \E x \in MatchChoices, y \in MatchChoices : CompareResults(x, y)

SpecPillars == PillarsInit /\ [][PillarsNext]_vars

\* C16: from_seed(p) gives ten pillars whose heights are 76, 79, ..., 103,
\* each used once, and a pillar is caged exactly when its shuffled index is
\* 1 or 2, that is when its height is 79 or 82.
from_seed_heights_and_cages ==
    (call.fn = "from_seed") =>
        /\ Len(pillars) = 10
        /\ {pillars[i].height : i \in 1..10} = PillarHeights
        /\ \A i \in 1..10, j \in 1..10 :
              (pillars[i].height = pillars[j].height) => (i = j)
        /\ \A i \in 1..10 :
              /\ pillars[i].height = 76 + 3 * pillars[i].index
              /\ pillars[i].caged <=> pillars[i].index \in {1, 2}
              /\ pillars[i].caged <=> pillars[i].height \in {79, 82}

\* A layout that the shuffle has moved: the first pillar is a caged one
from_seed_heights_and_cages_witness ==
    /\ call.fn = "from_seed"
    /\ pillars[1].caged /\ pillars[1].index = 2
    /\ pillars[10].index # 9

\* The pillar of shuffled index `index` is one that the observation of a
\* single pillar allows: the cage as observed, the height as the hint says
\* (Big 97..103, Medium 85..94, Small 76..82, MediumBig what Medium or Big
\* allow from 88 on, MediumSmall what Medium or Small allow).
Admits(partial, index) ==
    /\ (partial.caged # <<>>) => (partial.caged[1] <=> index \in {1, 2})
    /\ CASE partial.height.kind = "Exact" -> partial.height.h = 76 + 3 * index
         [] partial.height.kind = "Range" ->
                76 + 3 * index >= partial.height.min /\ 76 + 3 * index <= partial.height.max
         [] partial.height.kind = "Big" -> 76 + 3 * index \in 97..103
         [] partial.height.kind = "Medium" -> 76 + 3 * index \in 85..94
         [] partial.height.kind = "Small" -> 76 + 3 * index \in 76..82
         [] partial.height.kind = "MediumBig" -> 76 + 3 * index \in 88..103
         [] partial.height.kind = "MediumSmall" -> 76 + 3 * index \in 76..94
         [] OTHER -> TRUE

RECURSIVE Satisfiable(_, _, _)
\* Some assignment of the shuffled indices not in `used` to the pillars from
\* i on is one that the observation allows
Satisfiable(partial, i, used) ==
    IF i > 10 THEN TRUE
    ELSE \E index \in (0..9) \ used :
            Admits(partial[i], index) /\ Satisfiable(partial, i + 1, used \cup {index})

\* No layout of the ten pillars satisfies the observation
Unsatisfiable(partial) == ~Satisfiable(partial, 1, {})

\* C17: for an observation that no layout satisfies, seed_results returns
\* one entry per pillar seed and each of them is an ImpossibleMatch.
Unsatisfiable_observation_matches_no_seed ==
    (call.fn = "seed_results" /\ Unsatisfiable(call.partial)) =>
        /\ Len(call.val) = MaxPillarSeed + 1
        /\ \A k \in 1..Len(call.val) :
              call.val[k] = <<k - 1, ImpossibleMatch>>

\* seed_results of the observation of a caged pillar of height 100
Unsatisfiable_observation_matches_no_seed_witness ==
    /\ call.fn = "seed_results"
    /\ Unsatisfiable(call.partial)
    /\ call.partial[1] = PartialEndPillar(<<TRUE>>, Exact(100))
    /\ Len(call.val) = MaxPillarSeed + 1

\* C17, for the observations in which a single pillar contradicts itself or
\* two pillars contradict each other through cages, exact heights or ranges
Contradictory_observation_matches_no_seed ==
    (/\ call.fn = "seed_results"
     /\ Unsatisfiable(call.partial)
     /\ \A i \in 1..10 : call.partial[i].height.kind \in {"Unknown", "Exact", "Range"}) =>
        \A k \in 1..Len(call.val) : call.val[k] = <<k - 1, ImpossibleMatch>>

\* The weights a and b are at most n units in the last place apart
F64_within(a, b, n) ==
    /\ a.e - b.e \in {-1, 0, 1}
    /\ Let(wrapping_add(IF a.e > b.e THEN wrapping_add(a.m, a.m) ELSE a.m,
                        wrapping_neg(IF b.e > a.e THEN wrapping_add(b.m, b.m) ELSE b.m)),
           LAMBDA d :
               \/ d[1] <= n /\ \A i \in 2..8 : d[i] = 0
               \/ wrapping_neg(d)[1] <= n /\ \A i \in 2..8 : wrapping_neg(d)[i] = 0)

\* Two match results of the same variant whose weights, if any, are at most
\* n units in the last place apart
Match_within(v, w, n) ==
    /\ v.tag = w.tag
    /\ (v.tag = "PossibleMatch") => F64_within(v.w, w.w, n)

\* Other orders in which to go through the ten pillars
PillarOrders ==
    {<<10, 9, 8, 7, 6, 5, 4, 3, 2, 1>>, <<2, 3, 4, 5, 6, 7, 8, 9, 10, 1>>,
     <<2, 1, 4, 3, 6, 5, 8, 7, 10, 9>>, <<7, 3, 10, 2, 6, 1, 9, 5, 8, 4>>}

RECURSIVE FoldInOrder(_, _, _)
\* The results of the single pillars combined in the given order, from
\* ExactMatch, as the loop of PartialEndPillars::matches combines them
FoldInOrder(per_pillar, order, k) ==
    IF k = 0 THEN ExactMatch
    ELSE PillarMatchResult_combine(FoldInOrder(per_pillar, order, k - 1),
                                   per_pillar[order[k]])

\* What C19 says of combine itself: ImpossibleMatch dominates, ExactMatch is
\* the identity, two PossibleMatch multiply, and combine is commutative
combine_laws ==
    (call.fn = "combine_results") =>
        /\ (call.x = ImpossibleMatch \/ call.y = ImpossibleMatch)
              => (call.xy = ImpossibleMatch)
        /\ (call.y = ExactMatch) => (call.xy = call.x)
        /\ (call.x = ExactMatch) => (call.xy = call.y)
        /\ (call.x.tag = "PossibleMatch" /\ call.y.tag = "PossibleMatch")
              => (call.xy = PossibleMatch(F64_mul(call.x.w, call.y.w)))
        /\ call.xy = call.yx

\* C19 as stated: the laws of combine, and with them combine is associative
\* and the fold over the ten pillars does not depend on the pillar order.
combine_associative_any_order ==
    /\ combine_laws
    /\ (call.fn = "combine_results") => (call.xy_z = call.x_yz)
    /\ (call.fn = "matches") =>
          \A order \in PillarOrders :
              FoldInOrder(call.per_pillar, order, 10) = call.val

\* C19, amended: the laws of combine hold and combine is commutative; it is
\* associative when one of the three results is no PossibleMatch, and for
\* three PossibleMatch the two groupings give weights that differ by the
\* rounding of the two f64 products, at most 4 units in the last place.  The
\* fold over the ten pillars gives in every order the same variant, with
\* weights at most 18 units in the last place apart.
combine_associative_up_to_rounding ==
    /\ combine_laws
    /\ (call.fn = "combine_results") =>
          /\ Match_within(call.xy_z, call.x_yz, 4)
          /\ (\E v \in {call.x, call.y, call.z} : v.tag # "PossibleMatch")
                => (call.xy_z = call.x_yz)
    /\ (call.fn = "matches") =>
          /\ call.val = FoldInOrder(call.per_pillar, <<1, 2, 3, 4, 5, 6, 7, 8, 9, 10>>, 10)
          /\ \A order \in PillarOrders :
                Match_within(FoldInOrder(call.per_pillar, order, 10), call.val, 18)

\* Three PossibleMatch whose two groupings differ, 0.7, 0.9 and 0.9
combine_associative_up_to_rounding_witness ==
    /\ call.fn = "combine_results"
    /\ call.x = PossibleMatch(F64_0_7)
    /\ call.y = PossibleMatch(F64_0_9)
    /\ call.z = PossibleMatch(F64_0_9)
    /\ call.xy_z # call.x_yz
    /\ call.xy_z.tag = "PossibleMatch"

HintRange(hint) ==
    CASE hint = Big -> 97..103
      [] hint = Small -> 76..82
      [] hint = Medium -> 85..94
      [] hint = MediumBig -> 88..103
      [] hint = MediumSmall -> 76..94

\* The heights the arms of the soft hints let through
HintPasses(hint) ==
    CASE hint = Big -> 97..103
      [] hint = Small -> 76..82
      [] hint = Medium -> 85..94
      [] hint = MediumBig -> 88..103
      [] hint = MediumSmall -> 76..97

\* C22: a pillar observed with a soft hint is an ImpossibleMatch exactly
\* when its generated height lies outside the range of the hint, Big 97 and
\* more, Small 82 and less, Medium 85 to 94, MediumBig 88 to 103, MediumSmall
\* 76 to 94, and Unknown never rejects.
soft_hint_rejects_outside_range ==
    (call.fn = "matches") =>
        \A i \in 1..10 :
            /\ (call.partial[i].caged = <<>> /\ call.partial[i].height \in SoftHints)
                  => ((call.per_pillar[i] = ImpossibleMatch)
                        <=> (pillars[i].height \notin HintRange(call.partial[i].height)))
            /\ (call.partial[i] = PartialEndPillar(<<>>, Unknown))
                  => (call.per_pillar[i] # ImpossibleMatch)

\* MediumSmall observed on the pillar of height 97, and matched
soft_hint_rejects_outside_range_witness ==
    /\ call.fn = "matches"
    /\ \E i \in 1..10 :
          /\ call.partial[i] = PartialEndPillar(<<>>, MediumSmall)
          /\ pillars[i].height = 97
          /\ call.per_pillar[i] = PossibleMatch(F64_0_1)

\* The soft hints reject exactly the heights their arms test for: those of
\* the ranges, but 97 and less for MediumSmall
soft_hint_rejects_as_tested ==
    (call.fn = "matches") =>
        \A i \in 1..10 :
            (call.partial[i].caged = <<>> /\ call.partial[i].height \in SoftHints)
               => ((call.per_pillar[i] = ImpossibleMatch)
                     <=> (pillars[i].height \notin HintPasses(call.partial[i].height)))

\* The score of a match result: its rank, and within PossibleMatch its weight
Rank(v) == IF v = ImpossibleMatch THEN 0 ELSE IF v = ExactMatch THEN 2 ELSE 1

\* The order of two results by score
ByScore(v, w) ==
    IF Rank(v) < Rank(w) THEN "Less"
    ELSE IF Rank(v) > Rank(w) THEN "Greater"
    ELSE IF Rank(v) # 1 \/ v.w = w.w THEN "Equal"
    ELSE IF F64_lt(v.w, w.w) THEN "Less" ELSE "Greater"

\* Ordering::reverse
Reverse(o) == CASE o = "Less" -> "Greater" [] o = "Greater" -> "Less" [] OTHER -> o

\* C23: PillarMatchResult::compare orders results by score, ImpossibleMatch
\* below PossibleMatch(w) below ExactMatch and two PossibleMatch by their
\* weights, and compare(a, b) is the reverse of compare(b, a).
compare_orders_by_score ==
    (call.fn = "compare") =>
        /\ call.xy = ByScore(call.x, call.y)
        /\ call.xy = Reverse(call.yx)

\* Two PossibleMatch, the first of the larger weight, were compared both ways
compare_orders_by_score_witness ==
    /\ call.fn = "compare"
    /\ call.x = PossibleMatch(F64_0_9) /\ call.y = PossibleMatch(F64_half)
    /\ call.xy = "Less" /\ call.yx = "Less"

\* compare orders by score whenever the first result is not a PossibleMatch
\* of a larger weight than the second
compare_orders_by_score_unless_heavier ==
    (/\ call.fn = "compare"
     /\ ~(Rank(call.x) = 1 /\ Rank(call.y) = 1 /\ F64_lt(call.y.w, call.x.w))) =>
        call.xy = ByScore(call.x, call.y)

(***************************************************************************)
(* Stacks of loot in use: a list of raw stacks is divided, by              *)
(* LootTable::divide and by the closure of compare_fast0, or shuffled into *)
(* free slots by shuffle_loot                                              *)
(***************************************************************************)

\* The largest count of a raw stack, and the largest number of free slots
MaxStackCount == 5
MaxFreeSlots == 4

\* Raw stacks: ingots that stack to 2, swords that do not stack, and gold
\* with the stack size of ItemStack::of
StackChoices ==
    {ItemStack_new(IRON_INGOT, c, 2) : c \in 0..MaxStackCount}
      \cup {ItemStack_new(IRON_SWORD, c, 1) : c \in 0..2}
      \cup {ItemStack_of(GOLD_INGOT, c) : c \in {1, MaxStackCount}}

\* The lists of raw stacks
StackLists ==
    {<<>>} \cup {<<x>> : x \in StackChoices}
           \cup {<<x, y>> : x \in StackChoices, y \in StackChoices}

\* The numbers of free slots shuffle_loot is given
FreeSlotChoices == {0, 2, MaxFreeSlots, slot_count}

RECURSIVE callbacks_from(_, _, _)
\* generate_raw_loot_callback handing the stacks of a raw loot, one after
\* the other, to the closure of compare_fast0
callbacks_from(st, loot, k) ==
    IF k > Len(loot) \/ st.stop THEN st
    ELSE callbacks_from(compare_fast0_callback(st, loot[k]), loot, k + 1)

StacksInit ==
    /\ array \in StackLists
    /\ random \in {JavaRandom_new(FromInt(n)) : n \in 0..MaxSeed}
    /\ call = [fn |-> "new"]
    /\ pillars = <<>>
    /\ NoJob /\ NoLoot /\ NoApp

\* LootTable::divide(loot)
Divide ==
    /\ call.fn = "new"
    /\ call' = [fn |-> "divide", val |-> divide(array)]
    /\ UNCHANGED <<random, array, pillars>>
    /\ UNCHANGED <<jobVars, lootVars, appVars>>

\* compare_fast0 against the context of a chest that holds a full stack of
\* every item: the loot its closure has pushed
DivideInCompare ==
    /\ call.fn = "new"
    /\ \E compare \in {build_fast_inventory_compare_context(FullChest)} :
          call' = [fn |-> "compare_fast0",
                   val |-> callbacks_from(
                               [rem_count |-> compare.items_count,
                                rem_items |-> compare.total_items,
                                loot |-> <<>>, stop |-> FALSE], array, 1).loot]
    /\ UNCHANGED <<random, array, pillars>>
    /\ UNCHANGED <<jobVars, lootVars, appVars>>

\* LootTable::shuffle_loot(&mut loot, free_slots, rng)
ShuffleLoot(free_slots) ==
    /\ call.fn = "new"
    /\ \E r \in {shuffle_loot(array, free_slots, random)} :
          /\ array' = r.val
          /\ random' = r.rng
          /\ call' = [fn |-> "shuffle_loot", loot |-> array,
                      free_slots |-> free_slots]
    /\ UNCHANGED pillars
    /\ UNCHANGED <<jobVars, lootVars, appVars>>

StacksNext ==
    \/ Divide
    \/ DivideInCompare
    \/ \E free_slots \in FreeSlotChoices : ShuffleLoot(free_slots)

SpecStacks == StacksInit /\ [][StacksNext]_vars

RECURSIVE TotalFrom(_, _, _)
\* The number of items `item` in the stacks k and after of a list
TotalFrom(loot, item, k) ==
    IF k > Len(loot) THEN 0
    ELSE (IF loot[k].item = item THEN loot[k].count ELSE 0) + TotalFrom(loot, item, k + 1)

Total(loot, item) == TotalFrom(loot, item, 1)

\* The items of the stacks
StackItems == {IRON_INGOT, IRON_SWORD, GOLD_INGOT}

\* c items in stacks of m: the full stacks, then the remainder if any
FullStacksAndRemainder(items) ==
    Repeat([items EXCEPT !.count = items.max_count], items.count \div items.max_count)
      \o (IF items.count % items.max_count > 0
          THEN <<[items EXCEPT !.count = items.count % items.max_count]>> ELSE <<>>)

RECURSIVE SplitAll(_, _)
SplitAll(loot, k) ==
    IF k > Len(loot) THEN <<>>
    ELSE FullStacksAndRemainder(loot[k]) \o SplitAll(loot, k + 1)

\* The stacks of a list that hold an item, in order
NonEmpty(loot) == SelectSeq(loot, LAMBDA x : x.count # 0)

\* C24: splitting raw loot into stacks keeps the total count of every item:
\* a raw stack of count c and stack size m becomes c / m full stacks of m and
\* one stack of c mod m when that is positive, in LootTable::divide and in
\* the copy of that step in compare_fast0.
divide_preserves_counts ==
    (call.fn \in {"divide", "compare_fast0"}) =>
        /\ \A item \in StackItems : Total(call.val, item) = Total(array, item)
        /\ NonEmpty(call.val) = SplitAll(array, 1)

\* Two swords in one raw stack were divided, and one sword is left
divide_preserves_counts_witness ==
    /\ call.fn \in {"divide", "compare_fast0"}
    /\ array = <<ItemStack_new(IRON_SWORD, 2, 1)>>
    /\ call.val = <<ItemStack_new(IRON_SWORD, 1, 1)>>

\* The split is as described for every raw stack but one whose count is a
\* multiple of the stack size, twice it or more
divide_preserves_counts_unless_multiple ==
    (/\ call.fn \in {"divide", "compare_fast0"}
     /\ \A k \in 1..Len(array) :
           array[k].count % array[k].max_count # 0
             \/ array[k].count <= array[k].max_count) =>
        /\ \A item \in StackItems : Total(call.val, item) = Total(array, item)
        /\ NonEmpty(call.val) = SplitAll(array, 1)

\* C29: for every list of stacks, number of free slots and PRNG state,
\* shuffle_loot ends and leaves a list in which every stack holds an item or
\* more and the total count of every item is that of the list it was given;
\* it ends because every split adds a stack and the splits stop when the
\* stacks fill the free slots.
shuffle_loot_keeps_items ==
    (call.fn = "shuffle_loot") =>
        /\ \A k \in 1..Len(array) : array[k].count >= 1
        /\ \A item \in StackItems : Total(array, item) = Total(call.loot, item)
        /\ Len(array) >= Len(NonEmpty(call.loot))
        /\ Len(array) <= Len(NonEmpty(call.loot)) \/ Len(array) <= call.free_slots

\* An empty stack was dropped and a stack was split
shuffle_loot_keeps_items_witness ==
    /\ call.fn = "shuffle_loot"
    /\ Len(call.loot) = 2 /\ call.loot[1].count = 0 /\ call.loot[2].count = MaxStackCount
    /\ Len(array) >= 3

\* The PRNG state whose next_long leaves the generator in the state that
\* ends in b_state_lo above the 32 low bits of the structure seed
StateBefore(structure_seed, b_state_lo) ==
    next_seed(JAVA_RANDOM_REV2,
              <<b_state_lo % 256, b_state_lo \div 256, structure_seed[1],
                structure_seed[2], structure_seed[3], structure_seed[4], 0, 0>>)

\* C25: in random mode the candidates Stage W keeps before the biome filter
\* are exactly the values v that are the next_long of a 48-bit PRNG state
\* with v mod 2^48 the structure seed: the 32 low bits of a next_long are
\* the bits 16 to 47 of the state it leaves, so the states to try are those
\* the closure is run for, and of a state visited the value is kept exactly
\* when its next_long agrees with the structure seed, and is that next_long.
compute_random_keeps_next_longs ==
    IsRandom =>
        /\ \A n \in 0..MaxSeed :
              Let(next_long(JavaRandom_new(FromInt(n))), LAMBDA l :
                  <<l.rng[3], l.rng[4], l.rng[5], l.rng[6]>>
                     = <<l.val[1], l.val[2], l.val[3], l.val[4]>>)
        /\ \A pos \in visited :
              Let(next_long(StateBefore(searcher.structure_seed, pos[2])), LAMBDA l :
                  /\ (pos \in taken) <=> (Mask48(l.val) = searcher.structure_seed)
                  /\ (pos \in taken) => (closure_table(searcher)[pos] = Some(l.val)))

\* The two candidates of the model were tried for the structure seed of a
\* world seed that a next_long gave: the one that gave it is kept, with a
\* low half that is negative, the other is not
compute_random_keeps_next_longs_witness ==
    /\ IsRandom /\ searcher.structure_seed = Mask48(RandomWorldSeed)
    /\ <<0, 511>> \in taken /\ <<0, 510>> \in visited \ taken
    /\ closure_table(searcher)[<<0, 511>>] = Some(RandomWorldSeed)
    /\ RandomWorldSeed[4] >= 128

\* C26: a Stage-S worker reads the stop flag once, at the start of an outer
\* iteration.  An outer iteration that starts when the flag is set evaluates
\* none of its candidates and records the stop as observed; one that is
\* under way is not stopped by the flag: its candidates go on being
\* evaluated, and a search that ends with candidates left to take has
\* evaluated every candidate of every outer iteration that went ahead.
stop_flag_polled_once_per_outer_iteration ==
    /\ [](IsStageS =>
            /\ started \cap skipped = {}
            /\ \A pos \in visited : pos[1] \in started
            /\ skipped # {} => (ack /\ stopsig)
            /\ (pc # "running" /\ ~Full) => visited = started \X state_lo_range)
    /\ [][(IsStageS /\ stopsig) =>
             /\ started' = started
             /\ \A state_hi \in state_hi_range :
                   (state_hi \notin started \cup skipped /\ pc = "running")
                      => ENABLED OuterIteration(state_hi)
             /\ \A pos \in (started \X state_lo_range) \ visited :
                   pc = "running" => ENABLED InnerIteration(pos[1], pos[2])]_vars

\* cancel_join found the search running with an outer iteration under way:
\* that one was evaluated to its end, another was skipped, and the search
\* ended
stop_flag_polled_once_per_outer_iteration_witness ==
    /\ IsStageS /\ cancel_running /\ stopsig /\ ack /\ pc = "done" /\ ~Full
    /\ started # {} /\ skipped # {}
    /\ visited = started \X state_lo_range

\* C27: generates_at and get_buried_treasure_loot_table_seed depend only on
\* the low 48 bits of the world seed: for two i64 seeds equal modulo 2^48 and
\* any chunk, both return the same for the one seed as for the other
buried_treasure_depends_on_low_48_bits ==
    (/\ call.fn = "buried_treasure"
     /\ Mask48(call.world_seed) = Mask48(call.other_seed))
        => /\ call.val.generates = call.other.generates
           /\ call.val.loot_seed = call.other.loot_seed

\* Both were computed for two different i64 seeds equal modulo 2^48, at a
\* chunk where a treasure generates
buried_treasure_depends_on_low_48_bits_witness ==
    /\ call.fn = "buried_treasure"
    /\ call.world_seed # call.other_seed
    /\ Mask48(call.world_seed) = Mask48(call.other_seed)
    /\ call.val.generates /\ call.other.generates
    /\ call.val.loot_seed = call.other.loot_seed

\* C28: once is_done of a Stage-S or Stage-W handle has returned true, the
\* status is terminal and every later get_status returns a terminal status,
\* never Searching, under every interleaving of the thread and the caller
is_done_then_status_terminal ==
    /\ [](seen_done => /\ isdone
                       /\ status.tag \in {"Complete", "Cancelled", "TooManySeeds"})
    /\ [][(seen_done /\ seen' # seen)
             => /\ seen' = status
                /\ seen'.tag \in {"Complete", "Cancelled", "TooManySeeds"}]_vars

\* In a Stage-S search is_done has returned true and get_status the terminal
\* status the thread stored
is_done_then_status_terminal_witness ==
    /\ IsStageS /\ seen_done /\ handle = "live"
    /\ seen = status /\ seen.tag = "TooManySeeds"

\* Candidates of the whole range 0..65535 of state_hi and of state_lo: the
\* ends of both ranges with those the search visits
SamplePositions ==
    (state_hi_range \cup {65535}) \X ({0, 1} \cup state_lo_range)

\* The seed of each of these candidates
StageS_seed_sample ==
    Tabulated([pillar \in PillarSeeds, pos \in SamplePositions |->
                  StageS_seed(pillar, pos[1], pos[2])])

\* C30: for a pillar seed of 16 bits the candidates of a Stage-S search map
\* to pairwise distinct structure seeds, and no result list holds the same
\* seed twice, whatever the order in which the workers ran
StageS_seeds_pairwise_distinct ==
    IsStageS =>
        /\ \A p, q \in SamplePositions :
              p # q => StageS_seed_sample[searcher.pillar_seed, p]
                          # StageS_seed_sample[searcher.pillar_seed, q]
        /\ \A p, q \in visited :
              (/\ p # q
               /\ closure_table(searcher)[p] # None
               /\ closure_table(searcher)[q] # None)
                  => closure_table(searcher)[p] # closure_table(searcher)[q]
        /\ \A list \in SeedLists : \A i, j \in 1..Len(list) :
              i # j => list[i] # list[j]

\* A Stage-S search has returned every candidate of its range, more than one
StageS_seeds_pairwise_distinct_witness ==
    /\ IsStageS /\ pc = "done" /\ visited = SPositions
    /\ Len(results) = Cardinality(SPositions) /\ Len(results) >= 2
    /\ status.seeds = results /\ returned = Some(results)

====
